---- MODULE Spec2Model ----
(***************************************************************************)
(* A model of the TypeScript interface generator of the JSON viewer        *)
(* (src/src/services/typeScriptGenerator.ts) and of the button that calls  *)
(* it (src/src/components/TypeScriptButton.tsx).                           *)
(*                                                                         *)
(* JavaScript strings are TLA+ strings; they are taken apart with Len and  *)
(* SubSeq and put together with \o.  A Map is a sequence of <<key, value>> *)
(* pairs in insertion order, a Set a sequence without duplicates in        *)
(* insertion order, which is the order JavaScript iterates them in.        *)
(***************************************************************************)
EXTENDS Integers, Sequences, FiniteSets, TLC

(***************************************************************************)
(* Characters and strings                                                  *)
(***************************************************************************)
Lower == "abcdefghijklmnopqrstuvwxyz"
Upper == "ABCDEFGHIJKLMNOPQRSTUVWXYZ"
Digits == "0123456789"

\* The printable ASCII characters in code-unit order: the codes 32..95 and
\* 97..126 (a TLA+ string cannot hold the grave accent, code 96).
AsciiLow == " !\"#$%&'()*+,-./0123456789:;<=>?@ABCDEFGHIJKLMNOPQRSTUVWXYZ[\\]^_"

AsciiHigh == "abcdefghijklmnopqrstuvwxyz{|}~"

Ascii == AsciiLow \o AsciiHigh

\* The same characters in the order of the default (root) collation that
\* String.prototype.localeCompare uses: white space, punctuation, symbols,
\* digits, letters; a letter's case decides only between otherwise equal
\* strings.
Collation == " _-,;:!?.'\"()[]{}@*/\\&#%^+<=>|~$0123456789abcdefghijklmnopqrstuvwxyz"

CharAt(s, i) == SubSeq(s, i, i)

CharsOf(s) == {CharAt(s, i) : i \in 1..Len(s)}

IndexIn(s, c) == CHOOSE i \in 1..Len(s) : CharAt(s, i) = c

CharCode == [c \in CharsOf(Ascii) |->
               IF c \in CharsOf(AsciiLow) THEN IndexIn(AsciiLow, c) + 31
               ELSE IndexIn(AsciiHigh, c) + 96]

IsLower == [c \in CharsOf(Ascii) |-> c \in CharsOf(Lower)]

IsUpper == [c \in CharsOf(Ascii) |-> c \in CharsOf(Upper)]

IsDigit == [c \in CharsOf(Ascii) |-> c \in CharsOf(Digits)]

UpperOf == [c \in CharsOf(Ascii) |->
              IF c \in CharsOf(Lower) THEN CharAt(Upper, IndexIn(Lower, c)) ELSE c]

LowerOf == [c \in CharsOf(Ascii) |->
              IF c \in CharsOf(Upper) THEN CharAt(Lower, IndexIn(Upper, c)) ELSE c]

CollationWeight == [c \in CharsOf(Ascii) |-> IndexIn(Collation, LowerOf[c])]

Drop(s, n) == SubSeq(s, n + 1, Len(s))

DropLast(s, n) == SubSeq(s, 1, Len(s) - n)

startsWith(s, p) == Len(p) <= Len(s) /\ SubSeq(s, 1, Len(p)) = p

endsWith(s, p) == Len(p) <= Len(s) /\ SubSeq(s, Len(s) - Len(p) + 1, Len(s)) = p

RECURSIVE toLowerCase(_)
toLowerCase(s) == IF s = "" THEN "" ELSE LowerOf[CharAt(s, 1)] \o toLowerCase(Drop(s, 1))

\* s.charAt(0).toUpperCase() + s.slice(1)
Capitalize(s) == IF s = "" THEN "" ELSE UpperOf[CharAt(s, 1)] \o Drop(s, 1)

\* \s, for the characters the generated text holds
IsSpace(c) == c \in {" ", "\n", "\t"}

RECURSIVE trimStart(_)
trimStart(s) == IF s # "" /\ IsSpace(CharAt(s, 1)) THEN trimStart(Drop(s, 1)) ELSE s

RECURSIVE trimEnd(_)
trimEnd(s) == IF s # "" /\ IsSpace(CharAt(s, Len(s))) THEN trimEnd(DropLast(s, 1)) ELSE s

trim(s) == trimEnd(trimStart(s))

\* The first index >= from at which the character c stands in s, 0 if none.
RECURSIVE indexOfChar(_, _, _)
indexOfChar(s, c, from) ==
    IF from > Len(s) THEN 0
    ELSE IF CharAt(s, from) = c THEN from
    ELSE indexOfChar(s, c, from + 1)

\* s.split(c) for a one-character separator c.
RECURSIVE split(_, _)
split(s, c) ==
    LET i == indexOfChar(s, c, 1)
    IN  IF i = 0 THEN <<s>>
        ELSE <<SubSeq(s, 1, i - 1)>> \o split(Drop(s, i), c)

\* parts.join(sep)
RECURSIVE join(_, _)
join(parts, sep) ==
    IF Len(parts) = 0 THEN ""
    ELSE IF Len(parts) = 1 THEN parts[1]
    ELSE parts[1] \o sep \o join(Tail(parts), sep)

\* a < b in the order of Array.prototype.sort() without a comparator:
\* by UTF-16 code units, a proper prefix first.
RECURSIVE CodeUnitLess(_, _)
CodeUnitLess(a, b) ==
    IF b = "" THEN FALSE
    ELSE IF a = "" THEN TRUE
    ELSE IF CharAt(a, 1) = CharAt(b, 1) THEN CodeUnitLess(Drop(a, 1), Drop(b, 1))
    ELSE CharCode[CharAt(a, 1)] < CharCode[CharAt(b, 1)]

\* The sign of the first difference of the collation weights of a and b.
RECURSIVE PrimaryCompare(_, _)
PrimaryCompare(a, b) ==
    IF a = "" /\ b = "" THEN 0
    ELSE IF a = "" THEN -1
    ELSE IF b = "" THEN 1
    ELSE LET wa == CollationWeight[CharAt(a, 1)]
             wb == CollationWeight[CharAt(b, 1)]
         IN  IF wa < wb THEN -1
             ELSE IF wa > wb THEN 1
             ELSE PrimaryCompare(Drop(a, 1), Drop(b, 1))

\* Among strings that differ in case only, lower case comes first.
RECURSIVE CaseCompare(_, _)
CaseCompare(a, b) ==
    IF a = "" \/ b = "" THEN 0
    ELSE IF CharAt(a, 1) = CharAt(b, 1) THEN CaseCompare(Drop(a, 1), Drop(b, 1))
    ELSE IF IsLower[CharAt(a, 1)] THEN -1 ELSE 1

localeCompare(a, b) ==
    LET p == PrimaryCompare(a, b) IN IF p # 0 THEN p ELSE CaseCompare(a, b)

\* Insertion of x into the sorted sequence s, after the elements that are
\* not greater (a stable sort).
RECURSIVE InsertByCodeUnit(_, _)
InsertByCodeUnit(s, x) ==
    IF Len(s) = 0 THEN <<x>>
    ELSE IF CodeUnitLess(x, s[1]) THEN <<x>> \o s
    ELSE <<s[1]>> \o InsertByCodeUnit(Tail(s), x)

\* parts.sort()
RECURSIVE sort(_)
sort(parts) ==
    IF Len(parts) = 0 THEN <<>>
    ELSE InsertByCodeUnit(sort(SubSeq(parts, 1, Len(parts) - 1)), parts[Len(parts)])

\* String(n) for a natural number n.
RECURSIVE IntToStr(_)
IntToStr(n) ==
    IF n < 10 THEN CharAt(Digits, n + 1)
    ELSE IntToStr(n \div 10) \o CharAt(Digits, (n % 10) + 1)

\* s.replace(/\d+$/, '')
RECURSIVE StripTrailingDigits(_)
StripTrailingDigits(s) ==
    IF s # "" /\ IsDigit[CharAt(s, Len(s))] THEN StripTrailingDigits(DropLast(s, 1)) ELSE s

(***************************************************************************)
(* JSON values, as JSON.parse returns them.  An object lists its keys in   *)
(* the order Object.entries gives them; a value that is no object or array *)
(* has no keys and no vals.  Only the kind of a number, string or boolean  *)
(* is kept, and whether it is falsy (0, "", false).                        *)
(***************************************************************************)
JNull == [k |-> "null", falsy |-> TRUE, keys |-> <<>>, vals |-> <<>>]

JNum == [k |-> "number", falsy |-> FALSE, keys |-> <<>>, vals |-> <<>>]

JZero == [k |-> "number", falsy |-> TRUE, keys |-> <<>>, vals |-> <<>>]

JStr == [k |-> "string", falsy |-> FALSE, keys |-> <<>>, vals |-> <<>>]

JBool == [k |-> "boolean", falsy |-> FALSE, keys |-> <<>>, vals |-> <<>>]

\* false
JFalse == [k |-> "boolean", falsy |-> TRUE, keys |-> <<>>, vals |-> <<>>]

\* ""
JEmpty == [k |-> "string", falsy |-> TRUE, keys |-> <<>>, vals |-> <<>>]

JArr(items) == [k |-> "array", falsy |-> FALSE, keys |-> <<>>, vals |-> items]

JObj(keys, vals) == [k |-> "object", falsy |-> FALSE, keys |-> keys, vals |-> vals]

IsNull(v) == v.k = "null"

IsArray(v) == v.k = "array"

\* typeof v === 'object' && v !== null && !Array.isArray(v)
IsObject(v) == v.k = "object"

\* typeof v, for a value that is not null
typeOf(v) == IF v.k = "array" THEN "object" ELSE v.k

(***************************************************************************)
(* Plain objects used as dictionaries ({} in the source) inherit the       *)
(* members of Object.prototype: a lookup of such a key that the dictionary *)
(* does not own yields a function or object, which is truthy and is        *)
(* neither a string nor a Set.                                             *)
(***************************************************************************)
ObjectPrototypeKeys ==
    {"constructor", "__proto__", "hasOwnProperty", "isPrototypeOf",
     "propertyIsEnumerable", "toLocaleString", "toString", "valueOf",
     "__defineGetter__", "__defineSetter__", "__lookupGetter__", "__lookupSetter__"}

\* What stands for an inherited member where a string is expected.
Inherited == "[object Object.prototype member]"

(***************************************************************************)
(* Maps and Sets in insertion order                                        *)
(***************************************************************************)
MapHas(m, key) == \E i \in 1..Len(m) : m[i][1] = key

MapIndex(m, key) == CHOOSE i \in 1..Len(m) : m[i][1] = key

MapGet(m, key) == m[MapIndex(m, key)][2]

\* m.set(key, val): a key already in the map keeps its place.
MapSet(m, key, val) ==
    IF MapHas(m, key) THEN [m EXCEPT ![MapIndex(m, key)] = <<key, val>>]
    ELSE Append(m, <<key, val>>)

\* The sequence that the function f on 1..n is, with its elements computed.
RECURSIVE Listed(_, _)
Listed(f, n) == IF n = 0 THEN <<>> ELSE Append(Listed(f, n - 1), f[n])

MapKeys(m) == Listed([i \in 1..Len(m) |-> m[i][1]], Len(m))

SeqHas(s, e) == \E i \in 1..Len(s) : s[i] = e

\* set.add(e)
SetAdd(s, e) == IF SeqHas(s, e) THEN s ELSE Append(s, e)

\* set.delete(e), and array.filter(t => t !== e)
RECURSIVE Without(_, _)
Without(s, e) ==
    IF Len(s) = 0 THEN <<>>
    ELSE IF s[1] = e THEN Without(Tail(s), e)
    ELSE <<s[1]>> \o Without(Tail(s), e)

\* new Set(s): the elements of s in the order of their first occurrence
RECURSIVE Dedup(_)
Dedup(s) ==
    IF Len(s) = 0 THEN <<>>
    ELSE SetAdd(Dedup(SubSeq(s, 1, Len(s) - 1)), s[Len(s)])

(***************************************************************************)
(* Names                                                                   *)
(***************************************************************************)
\* The "Simple singularization" of both name cleaners.
Singularize(cleanName) ==
    IF endsWith(cleanName, "s") /\ Len(cleanName) > 1
    THEN IF endsWith(cleanName, "ies") THEN DropLast(cleanName, 3) \o "y"
         ELSE IF endsWith(cleanName, "ouses") THEN DropLast(cleanName, 1)
         ELSE IF endsWith(cleanName, "ses") \/ endsWith(cleanName, "xes")
                 \/ endsWith(cleanName, "zes") THEN DropLast(cleanName, 2)
         ELSE IF endsWith(cleanName, "ches") \/ endsWith(cleanName, "shes")
              THEN DropLast(cleanName, 2)
         ELSE IF ~endsWith(cleanName, "ss") THEN DropLast(cleanName, 1)
         ELSE cleanName
    ELSE cleanName

\* s.replace(/^p/, '')
StripPrefix(s, p) == IF startsWith(s, p) THEN Drop(s, Len(p)) ELSE s

\* s.replace(/p$/, '')
StripSuffix(s, p) == IF endsWith(s, p) THEN DropLast(s, Len(p)) ELSE s

\* s.replace(/^Root/, '').replace(/Interface$/, '').replace(/Item$/, '').replace(/Type$/, '')
StripAffixes(s) ==
    StripSuffix(StripSuffix(StripSuffix(StripPrefix(s, "Root"), "Interface"), "Item"), "Type")

\* An absent (undefined) suggested name is the empty string: the source
\* tests a name only by its truthiness.  The name must be a string.
generateCleanInterfaceName(suggestedName, isGeneric) ==
    IF suggestedName = "" THEN (IF isGeneric THEN "Item" ELSE "Interface")
    ELSE LET cleanName == Capitalize(Singularize(StripAffixes(suggestedName)))
         IN  IF cleanName = "" THEN "Item" ELSE cleanName

commonMappings ==
    << <<"address", "Address">>, <<"location", "Location">>, <<"user", "User">>,
       <<"users", "User">>, <<"author", "Author">>, <<"authors", "Author">>,
       <<"owner", "Owner">>, <<"owners", "Owner">>, <<"settings", "Settings">>,
       <<"config", "Config">>, <<"configuration", "Configuration">>,
       <<"metadata", "Metadata">>, <<"meta", "Meta">>, <<"item", "Item">>,
       <<"items", "Item">>, <<"product", "Product">>, <<"products", "Product">>,
       <<"order", "Order">>, <<"orders", "Order">>, <<"payment", "Payment">>,
       <<"payments", "Payment">>, <<"customer", "Customer">>,
       <<"customers", "Customer">>, <<"contact", "Contact">>,
       <<"contacts", "Contact">>, <<"contactInfo", "ContactInfo">>,
       <<"apiEndpoint", "ApiEndpoint">>, <<"apiEndpoints", "ApiEndpoint">> >>

\* The result is Inherited when the lower-case property name is a member
\* of Object.prototype: commonMappings is a plain object.
generateCleanChildName(propertyName) ==
    LET lowerProp == toLowerCase(propertyName)
    IN  IF MapHas(commonMappings, lowerProp) THEN MapGet(commonMappings, lowerProp)
        ELSE IF lowerProp \in ObjectPrototypeKeys THEN Inherited
        ELSE Singularize(Capitalize(propertyName))

IsIdentStart(c) == IsLower[c] \/ IsUpper[c] \/ c = "_" \/ c = "$"

IsIdentPart(c) == IsIdentStart(c) \/ IsDigit[c]

\* /^[a-zA-Z_$][a-zA-Z0-9_$]*$/.test(name)
IsIdentifier(name) ==
    /\ name # ""
    /\ IsIdentStart(CharAt(name, 1))
    /\ \A i \in 2..Len(name) : IsIdentPart(CharAt(name, i))

escapePropertyName(name) == IF ~IsIdentifier(name) THEN "\"" \o name \o "\"" ELSE name

(***************************************************************************)
(* Structural signatures                                                   *)
(***************************************************************************)
RECURSIVE getSimpleType(_)
getSimpleType(value) ==
    IF IsNull(value) THEN "null"
    ELSE IF typeOf(value) # "object" THEN typeOf(value)
    ELSE IF IsArray(value)
         THEN IF Len(value.vals) = 0 THEN "array"
              ELSE getSimpleType(value.vals[1]) \o "[]"
    ELSE "object"

\* types.filter(t => t !== 'missing' && t !== 'undefined')
ActualTypes(types) == Without(Without(types, "missing"), "undefined")

\* The type a signature gives a key of a merged shape.
StructureTypeOf(typeSet) ==
    LET types == sort(ActualTypes(typeSet))
    IN  IF Len(types) > 1 THEN "(" \o join(types, "|") \o ")"
        ELSE IF Len(types) = 1 /\ types[1] # "" THEN types[1]
        ELSE "unknown"

\* propertyTypes is a Map from the keys of the merged shape to their type
\* Sets; hasPT tells whether the optional parameter is given.
generateInterfaceStructure(obj, hasPT, propertyTypes) ==
    LET props == Listed([i \in 1..Len(obj.keys) |->
                           obj.keys[i] \o ":" \o
                           (IF hasPT /\ MapHas(propertyTypes, obj.keys[i])
                            THEN StructureTypeOf(MapGet(propertyTypes, obj.keys[i]))
                            ELSE getSimpleType(obj.vals[i]))],
                        Len(obj.keys))
    IN  join(sort(props), ";")

\* props is a Map from property names to [type, optional] records.
generateInterfaceStructureFromProps(props) ==
    join(sort(Listed([i \in 1..Len(props) |-> props[i][1] \o ":" \o props[i][2].type],
                     Len(props))), ";")

\* The first name whose stored structure is the given one, "" (null) if none.
findExistingInterface(interfaceStructures, structure) ==
    IF \E i \in 1..Len(interfaceStructures) : interfaceStructures[i][2] = structure
    THEN interfaceStructures[
            CHOOSE i \in 1..Len(interfaceStructures) :
               /\ interfaceStructures[i][2] = structure
               /\ \A j \in 1..(i - 1) : interfaceStructures[j][2] # structure][1]
    ELSE ""

\* if (name && type) of parseStructure, for the pieces of a part between
\* ':'.
NamesProperty(pieces) ==
    /\ Len(pieces) >= 2
    /\ pieces[1] # ""
    /\ pieces[2] # ""
    /\ pieces[1] # "__proto__"

\* The property names of a structure string: of each part between ';' the
\* text before the first ':', when it and the text up to the second ':' are
\* not empty.  (An assignment to the key __proto__ adds no property.)
parseStructure(structure) ==
    LET parts == split(structure, ";")
    IN  {split(parts[i], ":")[1] :
            i \in {j \in 1..Len(parts) : NamesProperty(split(parts[j], ":"))}}

haveSamePropertyNames(set1, set2) ==
    /\ Cardinality(set1) = Cardinality(set2)
    /\ \A prop \in set1 : prop \in set2

\* The test of the loop of findSimilarInterface, for one entry of
\* interfaceStructures.
IsSimilar(entry, baseName, newPropNames) ==
    /\ StripTrailingDigits(entry[1]) = baseName
    /\ haveSamePropertyNames(newPropNames, parseStructure(entry[2]))

\* The loop of findSimilarInterface.
FirstSimilar(interfaceStructures, baseName, newPropNames) ==
    IF \E i \in 1..Len(interfaceStructures) :
          IsSimilar(interfaceStructures[i], baseName, newPropNames)
    THEN interfaceStructures[
            CHOOSE i \in 1..Len(interfaceStructures) :
               /\ IsSimilar(interfaceStructures[i], baseName, newPropNames)
               /\ \A j \in 1..(i - 1) :
                     ~IsSimilar(interfaceStructures[j], baseName, newPropNames)][1]
    ELSE ""

\* The first stored name with the base name of suggestedName and the
\* property names of structure, "" (null) if none.
findSimilarInterface(interfaceStructures, structure, suggestedName) ==
    FirstSimilar(interfaceStructures, StripTrailingDigits(suggestedName),
                 parseStructure(structure))

RECURSIVE ensureUniqueFrom(_, _, _)
ensureUniqueFrom(usedNames, baseName, counter) ==
    IF SeqHas(usedNames, baseName \o IntToStr(counter))
    THEN ensureUniqueFrom(usedNames, baseName, counter + 1)
    ELSE baseName \o IntToStr(counter)

ensureUniqueName(usedNames, baseName) ==
    IF ~SeqHas(usedNames, baseName) THEN baseName
    ELSE ensureUniqueFrom(usedNames, baseName, 2)

(***************************************************************************)
(* Reading back the text of a definition                                   *)
(***************************************************************************)
\* The length of the longest prefix of s, from index i on, of characters
\* that are none of '"', '?' and ':'.
RECURSIVE NameRun(_, _)
NameRun(s, i) ==
    IF i > Len(s) \/ CharAt(s, i) \in {"\"", "?", ":"} THEN 0
    ELSE 1 + NameRun(s, i + 1)

\* \s*:\s*(.+);?\s*$ on rest, after the name and the mark of an optional
\* property.
MatchType(name, opt, rest) ==
    IF name # "" /\ startsWith(rest, ":") /\ trimStart(Drop(rest, 1)) # ""
    THEN [matched |-> TRUE, name |-> name, optional |-> opt,
          type |-> trimStart(Drop(rest, 1))]
    ELSE [matched |-> FALSE, name |-> "", optional |-> FALSE, type |-> ""]

\* "?(\?)? on rest, after the name.
MatchOptional(name, rest) ==
    MatchType(name, startsWith(rest, "?"), trimStart(StripPrefix(rest, "?")))

\* ([^"?:]+) on rest, after the spaces and the quote that may open the line.
MatchName(rest) ==
    MatchOptional(SubSeq(rest, 1, NameRun(rest, 1)),
                  StripPrefix(Drop(rest, NameRun(rest, 1)), "\""))

\* line.match(/^\s*"?([^"?:]+)"?(\?)?\s*:\s*(.+);?\s*$/), on the path on
\* which every greedy quantifier keeps what it took: [matched, name,
\* optional, type].
MatchProperty(line) == MatchName(StripPrefix(trimStart(line), "\""))

\* type.replace(/;$/, '').trim()
CleanType(type) == trim(IF endsWith(type, ";") THEN DropLast(type, 1) ELSE type)

\* if (match) { const [, name, optional, type] = match; props.set(...) }
SetProperty(props, m) ==
    IF m.matched /\ m.name # "__proto__"
    THEN MapSet(props, m.name, [type |-> CleanType(m.type), optional |-> m.optional])
    ELSE props

RECURSIVE ParseLines(_, _)
ParseLines(lines, props) ==
    IF Len(lines) = 0 THEN props
    ELSE ParseLines(Tail(lines), SetProperty(props, MatchProperty(lines[1])))

\* A Map from property names to [type, optional] records.
parseInterfaceContent(content) == ParseLines(split(content, "\n"), <<>>)

\* The loop of parseUnionType: [types, current, depth] after the
\* characters of type from index i on.
RECURSIVE UnionScan(_, _, _, _, _)
UnionScan(type, i, types, current, depth) ==
    IF i > Len(type)
    THEN IF trim(current) # "" THEN Append(types, trim(current)) ELSE types
    ELSE LET char == CharAt(type, i)
         IN  IF char = "(" \/ char = "["
             THEN UnionScan(type, i + 1, types, current \o char, depth + 1)
             ELSE IF char = ")" \/ char = "]"
             THEN UnionScan(type, i + 1, types, current \o char, depth - 1)
             ELSE IF char = "|" /\ depth = 0
             THEN UnionScan(type, i + 1,
                            IF trim(current) # "" THEN Append(types, trim(current))
                            ELSE types,
                            "", depth)
             ELSE UnionScan(type, i + 1, types, current \o char, depth)

\* type.replace(/^\(|\)$/g, '')
StripOuterParens(type) ==
    LET t1 == IF startsWith(type, "(") THEN Drop(type, 1) ELSE type
    IN  IF endsWith(t1, ")") THEN DropLast(t1, 1) ELSE t1

parseUnionType(type) == UnionScan(StripOuterParens(type), 1, <<>>, "", 0)

(***************************************************************************)
(* The generator.  Its four fields, and what the model records about a     *)
(* run, travel through the calls in one record st:                         *)
(*   interfaces, interfaceStructures, usedNames, structureToNames          *)
(*                the fields of the class;                                 *)
(*   threw        an exception was thrown (a TypeError) and unwinds the    *)
(*                call;                                                    *)
(*   swap         the order Array.prototype.sort leaves 'null' and         *)
(*                'undefined' in when the comparator of mergeInterfaces    *)
(*                is given both: it answers 1 for either order of the      *)
(*                two, so the order is the engine's choice;                *)
(*   tie          that choice was made in this run;                        *)
(*   overwrote    a definition was stored over a different one;            *)
(*   objLog       one entry for each call of generateObjectType that       *)
(*                returned;                                                *)
(*   arrLog       one entry for each call of generateArrayType that        *)
(*                returned;                                                *)
(*   writes       the objects of the input that were written to, each      *)
(*                with what it holds after the writes.                     *)
(* The last four are history kept for the properties, not read by the      *)
(* code.                                                                   *)
(***************************************************************************)
Ret(t, st) == [t |-> t, st |-> st]

\* An uncaught TypeError.
Throw(st) == [t |-> "", st |-> [st EXCEPT !.threw = TRUE]]

\* A push that adds the type twice.
PushTwice(types, type) == types \o <<type, type>>

\* types.push(type)
push(types, type) == Append(types, type)

\* Lines 153-169 of generateArrayType without the test of types.length
\* === 1: one type is written as a union of one.
ArrayTypeAlwaysUnion(types) ==
    IF Len(types) = 0 THEN "unknown[]"
    ELSE "(" \o join(types, " | ") \o ")[]"

\* Lines 153-169 of generateArrayType.
ArrayTypeOf(types) ==
    IF Len(types) = 0 THEN "unknown[]"
    ELSE IF Len(types) = 1 THEN types[1] \o "[]"
    ELSE LET concreteTypes == Without(types, "unknown")
         IN  IF Len(concreteTypes) > 0
             THEN IF Len(concreteTypes) = 1 THEN concreteTypes[1] \o "[]"
                  ELSE "(" \o join(concreteTypes, " | ") \o ")[]"
             ELSE "(" \o join(types, " | ") \o ")[]"

\* array.filter(t => t.endsWith('[]'))
RECURSIVE ArrayTypes(_)
ArrayTypes(types) ==
    IF Len(types) = 0 THEN <<>>
    ELSE (IF endsWith(types[1], "[]") THEN <<types[1]>> ELSE <<>>) \o ArrayTypes(Tail(types))

\* 'unknown[]' leaves when another array type is there.
DropUnknownArray(types) ==
    IF Len(ArrayTypes(types)) > 1 /\ SeqHas(types, "unknown[]")
    THEN Without(types, "unknown[]")
    ELSE types

\* Lines 228-245 of generateObjectType.
TypedField(isOptional, actualTypes) ==
    LET propertyType == IF Len(actualTypes) = 0 THEN "unknown"
                        ELSE join(actualTypes, " | ")
        hasNull == SeqHas(actualTypes, "null")
        hasRealType == \E i \in 1..Len(actualTypes) :
                          actualTypes[i] # "null" /\ actualTypes[i] # "undefined"
    IN  IF hasNull /\ hasRealType THEN [type |-> propertyType, optional |-> FALSE]
        ELSE IF isOptional /\ ~SeqHas(actualTypes, "undefined")
        THEN [type |-> propertyType \o " | undefined", optional |-> isOptional]
        ELSE [type |-> propertyType, optional |-> isOptional]

\* Lines 213-245 of generateObjectType: the field of a merged shape from
\* the Set of its types.
FieldFromTypes(typeSet) ==
    TypedField(SeqHas(typeSet, "undefined") \/ SeqHas(typeSet, "missing"),
               DropUnknownArray(ActualTypes(typeSet)))

\* The text of a definition from its name and property lines.
InterfaceText(name, lines) ==
    "export interface " \o name \o " {\n" \o join(lines, "\n") \o "\n}"

PropertyLine(key, optional, type) ==
    "  " \o escapePropertyName(key) \o (IF optional THEN "?" ELSE "") \o ": " \o type \o ";"

IsNullish(t) == t = "null" \/ t = "undefined"

RECURSIVE InsertByLocale(_, _)
InsertByLocale(s, x) ==
    IF Len(s) = 0 THEN <<x>>
    ELSE IF localeCompare(x, s[1]) < 0 THEN <<x>> \o s
    ELSE <<s[1]>> \o InsertByLocale(Tail(s), x)

RECURSIVE SortByLocale(_)
SortByLocale(s) ==
    IF Len(s) = 0 THEN <<>>
    ELSE InsertByLocale(SortByLocale(SubSeq(s, 1, Len(s) - 1)), s[Len(s)])

RECURSIVE SelectNullish(_, _)
SelectNullish(s, want) ==
    IF Len(s) = 0 THEN <<>>
    ELSE (IF IsNullish(s[1]) = want THEN <<s[1]>> ELSE <<>>) \o SelectNullish(Tail(s), want)

\* The order the sort leaves 'null' and 'undefined' in.
NullishOrder(last, swap) ==
    IF Len(last) = 2 /\ swap THEN <<last[2], last[1]>> ELSE last

\* Array.from(allTypes).sort(comparator) of mergeInterfaces: the other
\* types by localeCompare, then 'null' and 'undefined'.
SortTypes(allTypes, swap) ==
    SortByLocale(SelectNullish(allTypes, FALSE))
      \o NullishOrder(SelectNullish(allTypes, TRUE), swap)

\* Lines 397-407 of mergeInterfaces.
MergedProperty(sortedTypes, bothOptional) ==
    LET hasNull == SeqHas(sortedTypes, "null")
        hasRealType == \E i \in 1..Len(sortedTypes) : ~IsNullish(sortedTypes[i])
    IN  [type |-> join(sortedTypes, " | "),
         optional |-> IF hasNull /\ hasRealType THEN FALSE ELSE bothOptional]

\* Lines 375-407 of mergeInterfaces: the merged type and optionality of a
\* property that the existing definition has.
MergeProperty(existing, newType, isOptional, swap) ==
    MergedProperty(SortTypes(DropUnknownArray(
                                Dedup(parseUnionType(existing.type)
                                        \o parseUnionType(newType))),
                             swap),
                   existing.optional /\ isOptional)

\* Whether the sort of a merge has both 'null' and 'undefined' to order.
MergeTies(existing, newType) ==
    LET allTypes == parseUnionType(existing.type) \o parseUnionType(newType)
    IN  SeqHas(allTypes, "null") /\ SeqHas(allTypes, "undefined")

\* this.<name>(...args): the methods of the class call one another through
\* it.
RECURSIVE Method(_, _)
RECURSIVE ArrayLoop(_, _, _, _)
RECURSIVE FieldLoop(_, _, _, _, _)
RECURSIVE MergeLoop(_, _, _, _, _, _)
RECURSIVE ObjectsLoop(_, _, _)
RECURSIVE EntriesLoop(_, _, _)

\* JSON holds no undefined and no value of another kind, so the branches
\* for them are not taken.
generateType(value, suggestedName, st) ==
    IF st.threw THEN Ret("", st)
    ELSE IF IsNull(value) THEN Ret("null", st)
    ELSE IF typeOf(value) # "object" THEN Ret(typeOf(value), st)
    ELSE IF IsArray(value) THEN Method("generateArrayType", <<value, suggestedName, st>>)
    ELSE Method("generateObjectType", <<value, suggestedName, FALSE, <<>>, st>>)

\* primitiveTypes.add(type) of the loop over the elements, with the state
\* the computation of the type leaves.
AddType(acc, r) ==
    [acc EXCEPT !.primitiveTypes = SetAdd(@, r.t), !.st = r.st]

\* The loop over the elements: acc is [arr, primitiveTypes, objectShapes,
\* st], arr the elements for the history.
ArrayLoop(arr, i, suggestedName, acc) ==
    IF i > Len(arr) \/ acc.st.threw THEN acc
    ELSE IF IsNull(arr[i])
    THEN ArrayLoop(arr, i + 1, suggestedName, AddType(acc, Ret("null", acc.st)))
    ELSE IF IsObject(arr[i])
    THEN ArrayLoop(arr, i + 1, suggestedName,
                   [acc EXCEPT !.objectShapes = Append(@, arr[i])])
    ELSE IF IsArray(arr[i])
    THEN ArrayLoop(arr, i + 1, suggestedName,
                   AddType(acc, Method("generateArrayType",
                                       <<arr[i], suggestedName, acc.st>>)))
    ELSE ArrayLoop(arr, i + 1, suggestedName,
                   AddType(acc, Ret(typeOf(arr[i]), acc.st)))

\* Lines 153-169 of generateArrayType, from what the loop over the
\* elements left in a, the types and the state s.
ArrayResult(a, types, s) ==
    IF s.threw THEN Ret("", s)
    ELSE Ret(ArrayTypeOf(types),
             [s EXCEPT !.arrLog = Append(@, [arr |-> a.arr,
                                             objects |-> Len(a.objectShapes),
                                             primitiveTypes |-> a.primitiveTypes,
                                             types |-> types,
                                             result |-> ArrayTypeOf(types)])])

\* objectShapes.every(shape => ... === firstStructure)
AllSameStructure(objectShapes) ==
    \A i \in 2..Len(objectShapes) :
       generateInterfaceStructure(objectShapes[i], FALSE, <<>>)
         = generateInterfaceStructure(objectShapes[1], FALSE, <<>>)

\* Lines 146-147 of generateArrayType.
MergedObjectType(itemName, mergedShape) ==
    Method("generateObjectType",
           <<mergedShape.shape, itemName, TRUE, mergedShape.propertyTypes, mergedShape.st>>)

\* Lines 128-149 of generateArrayType: objectType.
ObjectTypeOf(a, itemName) ==
    IF AllSameStructure(a.objectShapes)
    THEN Method("generateObjectType", <<a.objectShapes[1], itemName, FALSE, <<>>, a.st>>)
    ELSE MergedObjectType(itemName,
                          Method("mergeObjectsWithUnionTypes", <<a.objectShapes, a.st>>))

\* types.push(objectType)
PushObjectType(a, objectType) ==
    ArrayResult(a, push(a.primitiveTypes, objectType.t), objectType.st)

\* Lines 108-169 of generateArrayType: a is what the loop over the
\* elements leaves.
AnalysedArray(a, suggestedName) ==
    IF a.st.threw THEN Ret("", a.st)
    ELSE IF Len(a.objectShapes) = 0 THEN ArrayResult(a, a.primitiveTypes, a.st)
    \* generateCleanInterfaceName calls suggestedName.replace
    ELSE IF suggestedName = Inherited THEN Throw(a.st)
    ELSE PushObjectType(a, ObjectTypeOf(a, generateCleanInterfaceName(suggestedName, FALSE)))

generateArrayType(arr, suggestedName, st) ==
    IF st.threw THEN Ret("", st)
    ELSE AnalysedArray(ArrayLoop(arr.vals, 1, suggestedName,
                                 [arr |-> arr.vals, primitiveTypes |-> <<>>,
                                  objectShapes |-> <<>>, st |-> st]),
                       suggestedName)

\* properties.push(...) of the no-match branch, with the state s the
\* computation of the type leaves.
PushField(acc, field, s) ==
    [lines |-> Append(acc.lines, PropertyLine(field.key, field.optional, field.type)),
     fields |-> Append(acc.fields, field),
     st |-> s]

\* The field of a key that propertyTypes holds.
UnionField(key, typeSet, f) ==
    [key |-> key, optional |-> f.optional, type |-> f.type, seen |-> typeSet]

\* The field of a key whose value gives the type: r is what generateType
\* returns.
ValueField(key, value, r) ==
    [key |-> key, optional |-> IsNull(value), type |-> r.t, seen |-> <<r.t>>]

\* The loop over the entries of the no-match branch: acc is [lines,
\* fields, st], and fields the history of the properties.
FieldLoop(obj, i, hasPT, propertyTypes, acc) ==
    IF i > Len(obj.keys) \/ acc.st.threw THEN acc
    ELSE IF hasPT /\ MapHas(propertyTypes, obj.keys[i])
    THEN FieldLoop(obj, i + 1, hasPT, propertyTypes,
                   PushField(acc,
                             UnionField(obj.keys[i], MapGet(propertyTypes, obj.keys[i]),
                                        FieldFromTypes(MapGet(propertyTypes, obj.keys[i]))),
                             acc.st))
    ELSE LET r == Method("generateType",
                         <<obj.vals[i], generateCleanChildName(obj.keys[i]), acc.st>>)
         IN  FieldLoop(obj, i + 1, hasPT, propertyTypes,
                       PushField(acc, ValueField(obj.keys[i], obj.vals[i], r), r.st))

\* The four collections of the generator in the state st.
Registry(st) ==
    [interfaces |-> st.interfaces, interfaceStructures |-> st.interfaceStructures,
     usedNames |-> st.usedNames, structureToNames |-> st.structureToNames]

\* The state s with one more entry of the history of generateObjectType:
\* call holds the arguments, the signature and the collections at the
\* start of the call, how the branch taken, name the name returned.
Log(s, call, how, name, fields) ==
    [s EXCEPT !.objLog = Append(@, [obj |-> call.obj, merged |-> call.merged,
                                    propertyTypes |-> call.propertyTypes,
                                    wanted |-> call.wanted, how |-> how,
                                    name |-> name, fields |-> fields,
                                    structure |-> call.structure,
                                    before |-> call.before,
                                    after |-> Registry(s)])]

\* Lines 260-272 of generateObjectType without the entry of the
\* definition in interfaces at line 264.
CreatedUnregistered(call, structure, uniqueName, f) ==
    IF f.st.threw THEN Ret("", f.st)
    ELSE Ret(uniqueName,
             Log([f.st EXCEPT
                    !.interfaceStructures = MapSet(@, uniqueName, structure),
                    !.usedNames = SetAdd(@, uniqueName),
                    !.structureToNames =
                        MapSet(@, structure,
                               Append(IF MapHas(@, structure) THEN MapGet(@, structure)
                                      ELSE <<>>, uniqueName))],
                 call, "new", uniqueName, f.fields))

\* Lines 260-272 of generateObjectType: f is what the loop over the
\* entries leaves.
Created(call, structure, uniqueName, f) ==
    IF f.st.threw THEN Ret("", f.st)
    ELSE Ret(uniqueName,
             Log([f.st EXCEPT
                    !.overwrote = @ \/ (/\ MapHas(f.st.interfaces, uniqueName)
                                        /\ MapGet(f.st.interfaces, uniqueName)
                                             # InterfaceText(uniqueName, f.lines)),
                    !.interfaces = MapSet(@, uniqueName, InterfaceText(uniqueName, f.lines)),
                    !.interfaceStructures = MapSet(@, uniqueName, structure),
                    !.usedNames = SetAdd(@, uniqueName),
                    !.structureToNames =
                        MapSet(@, structure,
                               Append(IF MapHas(@, structure) THEN MapGet(@, structure)
                                      ELSE <<>>, uniqueName))],
                 call, "new", uniqueName, f.fields))

\* Lines 193-196 of generateObjectType: m is what mergeInterfaces returns.
MergedInto(call, m) ==
    IF m.st.threw THEN Ret("", m.st)
    ELSE Ret(m.t, Log(m.st, call, "similar", m.t, m.fields))

\* Lines 193-272 of generateObjectType.
WithSimilar(call, st, structure, similarInterface) ==
    IF similarInterface # ""
    THEN MergedInto(call,
                    Method("mergeInterfaces",
                           <<similarInterface, call.obj, call.merged, call.propertyTypes, st>>))
    ELSE Created(call, structure, ensureUniqueName(st.usedNames, call.wanted),
                 FieldLoop(call.obj, 1, call.merged, call.propertyTypes,
                           [lines |-> <<>>, fields |-> <<>>, st |-> st]))

\* Lines 187-272 of generateObjectType with the similar match tried before
\* the exact match.
SimilarBeforeExact(call, st, structure, existingName) ==
    IF /\ call.wanted # Inherited
       /\ findSimilarInterface(st.interfaceStructures, structure, call.wanted) # ""
    THEN WithSimilar(call, st, structure,
                     findSimilarInterface(st.interfaceStructures, structure, call.wanted))
    ELSE IF existingName # ""
    THEN Ret(existingName, Log(st, call, "exact", existingName, <<>>))
    ELSE IF call.wanted = Inherited THEN Throw(st)
    ELSE WithSimilar(call, st, structure, "")

\* Lines 187-272 of generateObjectType.
WithExisting(call, st, structure, existingName) ==
    IF existingName # "" THEN Ret(existingName, Log(st, call, "exact", existingName, <<>>))
    \* findSimilarInterface calls suggestedName.replace
    ELSE IF call.wanted = Inherited THEN Throw(st)
    ELSE WithSimilar(call, st, structure,
                     findSimilarInterface(st.interfaceStructures, structure, call.wanted))

\* Lines 186-272 of generateObjectType.
WithStructure(call, st, structure) ==
    WithExisting(call, st, structure,
                 findExistingInterface(st.interfaceStructures, structure))

generateObjectType(obj, suggestedName, hasPT, propertyTypes, st) ==
    IF st.threw THEN Ret("", st)
    ELSE WithStructure([obj |-> obj, merged |-> hasPT, propertyTypes |-> propertyTypes,
                        wanted |-> IF suggestedName # "" THEN suggestedName
                                   ELSE generateCleanInterfaceName("Interface", TRUE),
                        structure |-> generateInterfaceStructure(obj, hasPT, propertyTypes),
                        before |-> Registry(st)],
                       st,
                       generateInterfaceStructure(obj, hasPT, propertyTypes))

\* mergedProps.set(key, prop) of mergeInterfaces, with the history of the
\* property and the state s.
SetMerged(acc, key, prop, seen, s) ==
    [mergedProps |-> IF key = "__proto__" THEN acc.mergedProps
                     ELSE MapSet(acc.mergedProps, key, prop),
     fields |-> Append(acc.fields, [key |-> key, optional |-> prop.optional,
                                    type |-> prop.type, seen |-> seen]),
     st |-> s]

\* Lines 375-411 of mergeInterfaces: newType and isOptional are those of
\* the property key of the new object, s the state their computation
\* leaves.
MergeField(acc, key, newType, isOptional, s, swap) ==
    IF s.threw THEN [acc EXCEPT !.st = s]
    ELSE IF MapHas(acc.mergedProps, key)
    THEN SetMerged(acc, key,
                   MergeProperty(MapGet(acc.mergedProps, key), newType, isOptional, swap),
                   <<MapGet(acc.mergedProps, key).type, newType>>,
                   [s EXCEPT !.tie = @ \/ MergeTies(MapGet(acc.mergedProps, key), newType)])
    \* a member of Object.prototype has no type to parse
    ELSE IF key \in ObjectPrototypeKeys THEN [acc EXCEPT !.st = [s EXCEPT !.threw = TRUE]]
    ELSE SetMerged(acc, key, [type |-> newType, optional |-> isOptional], <<newType>>, s)

\* Lines 364-368 of mergeInterfaces.
UnionTypeOf(actualTypes) ==
    IF Len(actualTypes) = 0 THEN "unknown" ELSE join(actualTypes, " | ")

\* Lines 370-372 of mergeInterfaces: r is what generateType returns.
MergeValue(acc, key, value, r, swap) ==
    MergeField(acc, key, r.t, IsNull(value), r.st, swap)

\* The loop over the entries of newObj: acc is [mergedProps, fields, st],
\* and fields the history of the properties merged.
MergeLoop(newObj, i, hasPT, newPropertyTypes, acc, swap) ==
    IF i > Len(newObj.keys) \/ acc.st.threw THEN acc
    ELSE IF hasPT /\ MapHas(newPropertyTypes, newObj.keys[i])
    THEN MergeLoop(newObj, i + 1, hasPT, newPropertyTypes,
                   MergeField(acc, newObj.keys[i],
                              UnionTypeOf(ActualTypes(MapGet(newPropertyTypes,
                                                             newObj.keys[i]))),
                              \/ SeqHas(MapGet(newPropertyTypes, newObj.keys[i]), "undefined")
                              \/ SeqHas(MapGet(newPropertyTypes, newObj.keys[i]), "missing"),
                              acc.st, swap),
                   swap)
    ELSE MergeLoop(newObj, i + 1, hasPT, newPropertyTypes,
                   MergeValue(acc, newObj.keys[i], newObj.vals[i],
                              Method("generateType",
                                     <<newObj.vals[i], generateCleanChildName(newObj.keys[i]),
                                       acc.st>>),
                              swap),
                   swap)

\* Lines 414-434 of mergeInterfaces: m is what the loop over the entries
\* of newObj leaves.
Rebuilt(existingName, m) ==
    IF m.st.threw THEN [t |-> "", st |-> m.st, fields |-> <<>>]
    ELSE [t |-> existingName,
          fields |-> m.fields,
          st |-> [m.st EXCEPT
                    !.interfaces =
                        MapSet(@, existingName,
                               InterfaceText(existingName,
                                   Listed([i \in 1..Len(m.mergedProps) |->
                                             PropertyLine(m.mergedProps[i][1],
                                                          m.mergedProps[i][2].optional,
                                                          m.mergedProps[i][2].type)],
                                          Len(m.mergedProps)))),
                    !.interfaceStructures =
                        MapSet(@, existingName,
                               generateInterfaceStructureFromProps(m.mergedProps))]]

mergeInterfaces(existingName, newObj, hasPT, newPropertyTypes, st) ==
    IF ~MapHas(st.interfaces, existingName)
    THEN [t |-> existingName, st |-> st, fields |-> <<>>]
    ELSE Rebuilt(existingName,
                 MergeLoop(newObj, 1, hasPT, newPropertyTypes,
                           [mergedProps |->
                                parseInterfaceContent(MapGet(st.interfaces, existingName)),
                            fields |-> <<>>, st |-> st],
                           st.swap))

\* Lines 518-554 of mergeObjectsWithUnionTypes, for one entry of an
\* object: r is the type of the value and the state its computation
\* leaves.
TrackEntry(acc, key, value, r) ==
    IF r.st.threw THEN [acc EXCEPT !.st = r.st]
    \* propertyTypes[key] is a member of Object.prototype: it has no add
    ELSE IF key \in ObjectPrototypeKeys THEN [acc EXCEPT !.st = [r.st EXCEPT !.threw = TRUE]]
    ELSE [shape |-> IF \/ ~MapHas(acc.shape, key)
                       \/ IsNull(MapGet(acc.shape, key))
                       \/ /\ IsArray(MapGet(acc.shape, key))
                          /\ Len(MapGet(acc.shape, key).vals) = 0
                          /\ IsArray(value) /\ Len(value.vals) > 0
                    THEN MapSet(acc.shape, key, value)
                    ELSE acc.shape,
          propertyTypes |->
              MapSet(acc.propertyTypes, key,
                     SetAdd(IF MapHas(acc.propertyTypes, key)
                            THEN MapGet(acc.propertyTypes, key) ELSE <<>>,
                            r.t)),
          propertyOccurrences |->
              MapSet(acc.propertyOccurrences, key,
                     (IF MapHas(acc.propertyTypes, key)
                      THEN MapGet(acc.propertyOccurrences, key) ELSE 0) + 1),
          seenKeys |-> acc.seenKeys \cup {key},
          st |-> r.st]

\* Lines 527-545 of mergeObjectsWithUnionTypes: the type of a value.
EntryType(key, value, st) ==
    IF IsNull(value) THEN Ret("null", st)
    ELSE IF IsArray(value)
    THEN Method("generateArrayType", <<value, generateCleanChildName(key), st>>)
    ELSE IF IsObject(value)
    THEN Method("generateObjectType", <<value, generateCleanChildName(key), FALSE, <<>>, st>>)
    ELSE Ret(typeOf(value), st)

\* The loop over the entries of one object: acc is [shape, propertyTypes,
\* propertyOccurrences, seenKeys, st]; shape is a Map here.
EntriesLoop(obj, i, acc) ==
    IF i > Len(obj.keys) \/ acc.st.threw THEN acc
    ELSE EntriesLoop(obj, i + 1,
                     TrackEntry(acc, obj.keys[i], obj.vals[i],
                                EntryType(obj.keys[i], obj.vals[i], acc.st)))

\* const shape = objects[0] in the place of line 510: the first of the
\* objects, with its entries.
FirstAsShape(objects) ==
    [target |-> 1,
     entries |-> Listed([i \in 1..Len(objects[1].keys) |->
                           <<objects[1].keys[i], objects[1].vals[i]>>],
                        Len(objects[1].keys))]

\* const shape = {} (line 510): a new object, none of objects (target 0),
\* without entries.
NewShape(objects) == [target |-> 0, entries |-> <<>>]

\* Each type Set whose key is not in keys gets 'missing'.
MarkMissing(propertyTypes, keys) ==
    Listed([i \in 1..Len(propertyTypes) |->
              IF propertyTypes[i][1] \in keys THEN propertyTypes[i]
              ELSE <<propertyTypes[i][1], SetAdd(propertyTypes[i][2], "missing")>>],
           Len(propertyTypes))

\* Lines 557-562 of mergeObjectsWithUnionTypes: e is what the loop over
\* the entries of one object leaves.
MarkUnseen(e) ==
    IF e.st.threw THEN e
    ELSE [e EXCEPT !.propertyTypes = MarkMissing(@, e.seenKeys)]

ObjectsLoop(objects, i, acc) ==
    IF i > Len(objects) \/ acc.st.threw THEN acc
    ELSE ObjectsLoop(objects, i + 1,
                     MarkUnseen(EntriesLoop(objects[i], 1, [acc EXCEPT !.seenKeys = {}])))

\* The keys that every object has.
CompleteKeys(propertyOccurrences, count) ==
    {propertyOccurrences[i][1] :
        i \in {j \in 1..Len(propertyOccurrences) : propertyOccurrences[j][2] >= count}}

\* Lines 572-581 of mergeObjectsWithUnionTypes.
CleanedShape(shape, marked, st) ==
    [shape |-> JObj(MapKeys(shape),
                    Listed([i \in 1..Len(shape) |-> shape[i][2]], Len(shape))),
     propertyTypes |-> Listed([i \in 1..Len(marked) |->
                                 <<marked[i][1], DropUnknownArray(marked[i][2])>>],
                              Len(marked)),
     st |-> st]

\* Lines 565-581 of mergeObjectsWithUnionTypes: a is what the loop over
\* the objects leaves.
TrackedShape(a, count) ==
    CleanedShape(a.shape,
                 MarkMissing(a.propertyTypes, CompleteKeys(a.propertyOccurrences, count)),
                 a.st)

\* The object that shape[key] = value (line 553) has written to, when it
\* is one of objects: m is what the method returns.
WrittenShape(target, objects, m) ==
    IF target = 0 \/ m.st.threw THEN m
    ELSE [m EXCEPT !.st.writes = Append(@, <<objects[target], m.shape>>)]

mergeObjectsWithUnionTypes(objects, st) ==
    WrittenShape(NewShape(objects).target, objects,
                 TrackedShape(ObjectsLoop(objects, 1,
                                          [shape |-> NewShape(objects).entries,
                                           propertyTypes |-> <<>>,
                                           propertyOccurrences |-> <<>>,
                                           seenKeys |-> {}, st |-> st]),
                              Len(objects)))

Method(name, args) ==
    CASE name = "generateType" -> generateType(args[1], args[2], args[3])
      [] name = "generateArrayType" -> generateArrayType(args[1], args[2], args[3])
      [] name = "generateObjectType" ->
            generateObjectType(args[1], args[2], args[3], args[4], args[5])
      [] name = "mergeInterfaces" ->
            mergeInterfaces(args[1], args[2], args[3], args[4], args[5])
      [] name = "mergeObjectsWithUnionTypes" ->
            mergeObjectsWithUnionTypes(args[1], args[2])

(***************************************************************************)
(* generateFromJson                                                        *)
(***************************************************************************)
\* A reset that forgets usedNames.clear().
ClearedButUsedNames(st) ==
    [st EXCEPT !.interfaces = <<>>, !.interfaceStructures = <<>>,
               !.structureToNames = <<>>]

\* The four clear() calls.
Cleared(st) ==
    [st EXCEPT !.interfaces = <<>>, !.interfaceStructures = <<>>,
               !.usedNames = <<>>, !.structureToNames = <<>>]

RECURSIVE Reverse(_)
Reverse(s) == IF Len(s) = 0 THEN <<>> ELSE Append(Reverse(Tail(s)), s[1])

RECURSIVE Concat(_)
Concat(parts) == IF Len(parts) = 0 THEN "" ELSE parts[1] \o Concat(Tail(parts))

\* The text built from the registry and the root type.
Render(interfaces, rootName, rootType) ==
    LET interfaceEntries == Reverse(interfaces)
        body == Concat(Listed([i \in 1..Len(interfaceEntries) |->
                                 interfaceEntries[i][2] \o "\n\n"],
                              Len(interfaceEntries)))
    IN  trim(IF ~MapHas(interfaces, rootName)
             THEN body \o "export type " \o rootName \o " = " \o rootType \o ";"
             ELSE body)

\* [output, st]; when st.threw no text is returned.
generateFromJson(json, rootName, st) ==
    LET Output(r) ==
            [output |-> IF r.st.threw THEN "" ELSE Render(r.st.interfaces, rootName, r.t),
             st |-> r.st]
    IN  Output(generateType(json, rootName, Cleared(st)))

\* A generator as the constructor leaves it.
NewGenerator ==
    [interfaces |-> <<>>, interfaceStructures |-> <<>>, usedNames |-> <<>>,
     structureToNames |-> <<>>, threw |-> FALSE, swap |-> FALSE, tie |-> FALSE,
     overwrote |-> FALSE, objLog |-> <<>>, arrLog |-> <<>>, writes |-> <<>>]

(***************************************************************************)
(* The inputs the model draws from                                         *)
(***************************************************************************)
\* The largest number of nodes (values) of a JSON document drawn from Texts.
MaxNodes == 4

\* "a1" has the base name of "a".
Keys == {"a", "a1", "b"}

\* Documents are drawn as texts and read by Parse: n is null, 1 a number,
\* s a string, t true, 0 zero, f false, e the empty string, [...] an array of the documents in it, and
\* {k:v...} an object with the value v under the key k, in this order.
LeafTexts == {"n", "1", "s"}

\* The sequences of k different keys.
RECURSIVE KeySeqs(_)
KeySeqs(k) ==
    IF k = 0 THEN {<<>>}
    ELSE {Append(p[1], p[2]) : p \in {q \in KeySeqs(k - 1) \X Keys : ~SeqHas(q[1], q[2])}}

\* The texts of k documents in a row with n nodes in all, when byNodes[m]
\* is the set of the texts of the documents with m nodes, for every m <= n.
RECURSIVE Elements(_, _, _)
Elements(n, k, byNodes) ==
    IF k = 0 THEN (IF n = 0 THEN {""} ELSE {})
    ELSE IF n < k THEN {}
    ELSE UNION {{p[1] \o p[2] : p \in byNodes[m] \X Elements(n - m, k - 1, byNodes)}
                : m \in 1..(n - k + 1)}

\* The same with the keys ks before the documents.
RECURSIVE Entries(_, _, _)
Entries(n, ks, byNodes) ==
    IF Len(ks) = 0 THEN (IF n = 0 THEN {""} ELSE {})
    ELSE IF n < Len(ks) THEN {}
    ELSE UNION {{ks[1] \o ":" \o p[1] \o p[2]
                   : p \in byNodes[m] \X Entries(n - m, Tail(ks), byNodes)}
                : m \in 1..(n - Len(ks) + 1)}

\* The texts of the documents with n > 1 nodes.
Composite(n, byNodes) ==
    UNION {{"[" \o e \o "]" : e \in Elements(n - 1, j, byNodes)}
           \cup UNION {{"{" \o e \o "}" : e \in Entries(n - 1, ks, byNodes)}
                       : ks \in KeySeqs(j)}
           : j \in 1..(n - 1)}

RECURSIVE TextsByNodes(_, _)
TextsByNodes(n, byNodes) ==
    IF n > MaxNodes THEN byNodes
    ELSE TextsByNodes(n + 1, Append(byNodes, Composite(n, byNodes)))

Texts ==
    LET byNodes == TextsByNodes(2, <<LeafTexts \cup {"[]", "{}"}>>)
    IN  UNION {byNodes[n] : n \in 1..MaxNodes}

\* The document that starts at index i of text: [value, next], next the
\* index after it.
RECURSIVE ParseValue(_, _)
RECURSIVE ParseElements(_, _, _)
RECURSIVE ParseEntries(_, _, _, _)
ParseValue(text, i) ==
    LET c == CharAt(text, i)
    IN  IF c = "n" THEN [value |-> JNull, next |-> i + 1]
        ELSE IF c = "1" THEN [value |-> JNum, next |-> i + 1]
        ELSE IF c = "s" THEN [value |-> JStr, next |-> i + 1]
        ELSE IF c = "t" THEN [value |-> JBool, next |-> i + 1]
        ELSE IF c = "0" THEN [value |-> JZero, next |-> i + 1]
        ELSE IF c = "f" THEN [value |-> JFalse, next |-> i + 1]
        ELSE IF c = "e" THEN [value |-> JEmpty, next |-> i + 1]
        ELSE IF c = "[" THEN ParseElements(text, i + 1, <<>>)
        ELSE ParseEntries(text, i + 1, <<>>, <<>>)

ParseElements(text, i, items) ==
    IF CharAt(text, i) = "]" THEN [value |-> JArr(items), next |-> i + 1]
    ELSE LET v == ParseValue(text, i)
         IN  ParseElements(text, v.next, Append(items, v.value))

ParseEntries(text, i, keys, vals) ==
    IF CharAt(text, i) = "}" THEN [value |-> JObj(keys, vals), next |-> i + 1]
    ELSE LET colon == indexOfChar(text, ":", i)
             v == ParseValue(text, colon + 1)
         IN  ParseEntries(text, v.next, Append(keys, SubSeq(text, i, colon - 1)),
                          Append(vals, v.value))

Parse(text) == ParseValue(text, 1).value

\* The largest number of objects that a document drawn from SampleTexts
\* puts side by side.
MaxSamples == 2

\* The objects with at most two of the keys a and b, in either order: a
\* over null, a number and a string, b over null and a number.
FlatObjects ==
    {"{}"}
    \cup {"{a:" \o v \o "}" : v \in LeafTexts}
    \cup {"{b:" \o w \o "}" : w \in {"n", "1"}}
    \cup UNION {{"{a:" \o p[1] \o "b:" \o p[2] \o "}", "{b:" \o p[2] \o "a:" \o p[1] \o "}"}
                : p \in LeafTexts \X {"n", "1"}}

\* The keys of the objects put side by side in one object.
SiblingKeys == <<"a", "a1", "b", "b1", "a2", "b2">>

\* k objects side by side: <<elements, entries>>, the texts of the objects
\* themselves and of each under the next of SiblingKeys.
RECURSIVE SideBySide(_)
SideBySide(k) ==
    IF k = 0 THEN {<<"", "">>}
    ELSE {<<p[1][1] \o p[2], p[1][2] \o SiblingKeys[k] \o ":" \o p[2]>>
            : p \in SideBySide(k - 1) \X FlatObjects}

SampleTexts ==
    UNION {{"[" \o t[1] \o "]", "{" \o t[2] \o "}"}
           : t \in UNION {SideBySide(k) : k \in 2..MaxSamples}}

\* Documents of the specification's examples and of the cases its
\* properties name.
ScenarioTexts ==
    {"{users:[{id:1name:s}{id:1name:sage:1}]}",
     "[{a:1}{a:sb:1}]",
     "[{a:1}{a:n}]",
     "[{a:1}{a:n}{}]",
     "{p:{a:1b:1}q:[{a:1}{a:1b:1}]}",
     "{a:{a:1}a1:{a:s}b:{a:1}}",
     "{a:{a:1}a1:{a:s}b:{a:s}b1:{a:1}}",
     "{a:{x:[1s]}a1:{x:n}}",
     "[[{b:1}{}][{b:n}]]",
     "[[{b:n}{}][{b:1}]]",
     "{constructor:{}}",
     "{constructor:1}",
     "{a:{}constructor:{}}",
     "{constructor:[{}]}",
     "[{constructor:1}{}]",
     "[{toString:1}{}]",
     "{a:{constructor:1}a1:{constructor:s}}",
     "[[][1]]",
     "[{a:[]}{a:[1]}]",
     "[{a:{b:1}}{a:{c:s}}]",
     "[{a:[1]}{a:[1s]}]",
     "[1snt[]{}]",
     "[n{a:1}[]{b:s}]",
     "{a:[[{}][{a:1}]]}",
     "{rootInterface:{}}",
     "[{rootInterface:{}}]",
     "{items:[{id:1}]item:{id:s}categories:[{}]boxes:[{x:1}]}",
     "{a:{a:{}b:{a:1}}}",
     "{items:[{a:1}]item:{b:1}}",
     "{item:{item:{}}}",
     "[n1[][s]]",
     "[[[]][[1]]]",
     "{a:{a:[]}a1:{a:[1]}}",
     "{a:{a:nb:1}a1:{a:nb:s}a2:{a:nb:n}}",
     "{a:{a:nb:1}a1:{a:nb:s}a2:{a:1b:n}}",
     "{a:[{a:1}{}]a1:{a:n}}",
     "[[{a:1}{a:s}][{a:s}{a:1}]]",
     "{a:{a:1b:1}a1:{a:sb:1}b:{b:1a:1}}",
     "[{a:{b:1}}{a:{b:s}}]",
     "{a:{a:1}b:{a:1}a1:{a:s}}",
     "{a:{x:[1s]y:1}a1:{x:[1s]y:s}}"}

InputTexts == Texts \cup SampleTexts \cup ScenarioTexts

\* Keys that are no identifiers: the texts above cannot hold them.
QuotedKeys == {"a-b", "a:b", "x y", "a?", "1a", ""}

\* For each of them an object with the key, two objects with it that have
\* the same base name, over a number and a string and over a number and
\* null, an array of two objects with it, and the key over an object and
\* over an array of an object.
KeyDocuments ==
    UNION {{JObj(<<k>>, <<JNum>>),
            JObj(<<k>>, <<JObj(<<"a">>, <<JNum>>)>>),
            JObj(<<k>>, <<JArr(<<JObj(<<"a">>, <<JNum>>)>>)>>),
            JObj(<<"a", "a1">>, <<JObj(<<k>>, <<JNum>>), JObj(<<k>>, <<JStr>>)>>),
            JObj(<<"a", "a1">>, <<JObj(<<k>>, <<JNum>>), JObj(<<k>>, <<JNull>>)>>),
            JArr(<<JObj(<<k>>, <<JNum>>), JObj(<<k, "b">>, <<JStr, JNum>>)>>)}
           : k \in QuotedKeys}

\* rootName = 'RootInterface', the default of generateFromJson's parameter.
DefaultRootName == "RootInterface"

\* The root names of the calls that name the root.
RootNames == {DefaultRootName, "A", "A1"}

\* The largest number of calls in a row on one generator.
MaxCalls == 3

\* The documents of the calls in a row.
RepeatTexts ==
    {"n", "1", "[]", "{}", "[{}]", "[1[]]", "{a:{}}", "{a:{a:{}}}", "{a:{a:1}}",
     "{a:{}a1:{a:1}}", "[{a:1}{a:n}]", "[[{b:1}{}][{b:n}]]", "{constructor:{}}",
     "[{rootInterface:{}}]", "{a:{a:1}a1:{a:s}b:{a:1}}"}

(***************************************************************************)
(* The state: the arguments and the result of the last call of             *)
(* generateFromJson on the exported generator, and the generator's fields; *)
(* naming is the last call of one of the methods that name a definition,   *)
(* with its arguments and its result; button is the TypeScript button,     *)
(* with its props and its state.                                           *)
(***************************************************************************)
VARIABLES json, rootName, interfaces, interfaceStructures, usedNames,
          structureToNames, output, threw, history, calls, naming, button

vars == <<json, rootName, interfaces, interfaceStructures, usedNames,
          structureToNames, output, threw, history, calls, naming, button>>

\* The button before any input: jsonData and isValid are what
\* useJsonParser('') returns, isModalOpen and generatedCode the initial
\* state; clicks counts the activations and invoked the calls of
\* generateFromJson, for the properties.
NoButton ==
    [jsonData |-> JNull, isValid |-> FALSE, isModalOpen |-> FALSE,
     generatedCode |-> "", clicks |-> 0, invoked |-> 0]

\* No method was called: hint is the name given, isGeneric the second
\* argument of generateCleanInterfaceName, used the Set usedNames.
NoNaming == [method |-> "", hint |-> "", isGeneric |-> FALSE, used |-> <<>>, result |-> ""]

\* The record the operators of the generator work on.
Generator(swap) ==
    [interfaces |-> interfaces, interfaceStructures |-> interfaceStructures,
     usedNames |-> usedNames, structureToNames |-> structureToNames,
     threw |-> FALSE, swap |-> swap, tie |-> FALSE, overwrote |-> FALSE,
     objLog |-> <<>>, arrLog |-> <<>>, writes |-> <<>>]

NoHistory == [swap |-> FALSE, tie |-> FALSE, overwrote |-> FALSE,
              objLog |-> <<>>, arrLog |-> <<>>]

\* The value the caller passed as it is when the call returns: every
\* object that was written to holds what the writes left.
RECURSIVE InputAfter(_, _)
InputAfter(value, writes) ==
    IF IsObject(value) /\ \E i \in 1..Len(writes) : writes[i][1] = value
    THEN writes[CHOOSE i \in 1..Len(writes) : writes[i][1] = value][2]
    ELSE IF IsObject(value) \/ IsArray(value)
    THEN [value EXCEPT !.vals = Listed([i \in 1..Len(value.vals) |->
                                          InputAfter(value.vals[i], writes)],
                                       Len(value.vals))]
    ELSE value

Returned(value, name, r) ==
    /\ json' = InputAfter(value, r.st.writes)
    /\ rootName' = name
    /\ interfaces' = r.st.interfaces
    /\ interfaceStructures' = r.st.interfaceStructures
    /\ usedNames' = r.st.usedNames
    /\ structureToNames' = r.st.structureToNames
    /\ output' = r.output
    /\ threw' = r.st.threw
    /\ history' = [swap |-> r.st.swap, tie |-> r.st.tie, overwrote |-> r.st.overwrote,
                   objLog |-> r.st.objLog, arrLog |-> r.st.arrLog]
    /\ calls' = calls + 1
    /\ naming' = naming

\* One call typeScriptGenerator.generateFromJson(value, name); when the
\* sort has 'null' and 'undefined' to order, in either of the two orders.
GenerateFromJson(value, name) ==
    LET Call(r) ==
            \/ Returned(value, name, r)
            \/ /\ r.st.tie
               /\ Returned(value, name, generateFromJson(value, name, Generator(TRUE)))
    IN  Call(generateFromJson(value, name, Generator(FALSE)))

\* A generator as the constructor leaves it, before any call.
Constructed ==
    /\ interfaces = <<>>
    /\ interfaceStructures = <<>>
    /\ usedNames = <<>>
    /\ structureToNames = <<>>
    /\ output = ""
    /\ threw = FALSE
    /\ history = NoHistory
    /\ calls = 0

\* One call generateFromJson(json) on a new generator, for every document.
Init ==
    /\ \/ \E text \in InputTexts : json = Parse(text)
       \/ json \in KeyDocuments
    /\ rootName = DefaultRootName
    /\ Constructed
    /\ naming = NoNaming
    /\ button = NoButton

Next == calls = 0 /\ GenerateFromJson(json, rootName) /\ button' = button

Spec == Init /\ [][Next]_vars

\* Calls generateFromJson(json, rootName) in a row on one generator.
InitRepeat ==
    /\ json = JNull
    /\ rootName = DefaultRootName
    /\ Constructed
    /\ naming = NoNaming
    /\ button = NoButton

NextRepeat ==
    /\ calls < MaxCalls
    /\ \E text \in RepeatTexts, name \in RootNames : GenerateFromJson(Parse(text), name)
    /\ button' = button

SpecRepeat == InitRepeat /\ [][NextRepeat]_vars

(***************************************************************************)
(* The methods that name a definition, each called on its own              *)
(***************************************************************************)
\* What stands before the ending of a name.
Stems == {"", "b", "bo", "ho", "addre", "Root", "cla"}

\* The plural endings the cleaners know, and the affixes.
Endings ==
    {"", "s", "ss", "ies", "ouses", "ses", "xes", "zes", "ches", "shes", "es", "y",
     "Item", "Interface", "Type"}

\* The names given to the cleaners: a stem and an ending, the property
\* names of the specification's table, and names that commonMappings
\* holds or that Object.prototype has.
Hints ==
    {p[1] \o p[2] : p \in Stems \X Endings}
    \cup {"items", "categories", "boxes", "addresses", "dishes", "houses",
          "users", "settings", "address", "contactInfo", "constructor", "Users"}

\* The largest number of names hint2, hint3, ... that usedNames holds.
MaxTaken == 3

\* The Sets usedNames: hint or not, and some of hint2, hint3, ...
RECURSIVE UsedFrom(_, _)
UsedFrom(hint, k) ==
    IF k = 0 THEN {<<>>, <<hint>>}
    ELSE UsedFrom(hint, k - 1)
         \cup {Append(u, hint \o IntToStr(k + 1)) : u \in UsedFrom(hint, k - 1)}

\* A call this.generateCleanInterfaceName(hint, isGeneric).
CleanInterfaceName ==
    /\ naming.method = ""
    /\ naming' = [naming EXCEPT
                     !.method = "generateCleanInterfaceName",
                     !.result = generateCleanInterfaceName(naming.hint, naming.isGeneric)]
    /\ UNCHANGED <<json, rootName, interfaces, interfaceStructures, usedNames,
                   structureToNames, output, threw, history, calls, button>>

\* A call this.generateCleanChildName(hint).
CleanChildName ==
    /\ naming.method = ""
    /\ naming' = [naming EXCEPT !.method = "generateCleanChildName",
                                !.result = generateCleanChildName(naming.hint)]
    /\ UNCHANGED <<json, rootName, interfaces, interfaceStructures, usedNames,
                   structureToNames, output, threw, history, calls, button>>

\* A call this.ensureUniqueName(hint) when usedNames is naming.used.
EnsureUniqueName ==
    /\ naming.method = ""
    /\ naming' = [naming EXCEPT !.method = "ensureUniqueName",
                                !.result = ensureUniqueName(naming.used, naming.hint)]
    /\ UNCHANGED <<json, rootName, interfaces, interfaceStructures, usedNames,
                   structureToNames, output, threw, history, calls, button>>

InitNames ==
    /\ json = JNull
    /\ rootName = DefaultRootName
    /\ Constructed
    /\ \E hint \in Hints, isGeneric \in BOOLEAN :
          \E used \in UsedFrom(hint, MaxTaken) :
             naming = [method |-> "", hint |-> hint, isGeneric |-> isGeneric,
                       used |-> used, result |-> ""]
    /\ button = NoButton

NextNames == CleanInterfaceName \/ CleanChildName \/ EnsureUniqueName

SpecNames == InitNames /\ [][NextNames]_vars

(***************************************************************************)
(* The TypeScript button of the application                                *)
(***************************************************************************)
\* The largest number of activations of the button.
MaxClicks == 2

\* The texts JSON.parse throws a SyntaxError on.
SyntaxErrors == {"{", "[1"}

\* What the editor holds: nothing, blanks, texts that are no JSON, and
\* documents of every kind of root.
EditorTexts ==
    {"", " "} \cup SyntaxErrors
    \cup {"n", "0", "1", "e", "s", "f", "t", "[]", "[1]", "{}", "[{a:1}{b:1}]",
          "{a:{a:1}}", "{constructor:{}}"}

\* The hook useJsonParser(jsonString).
useJsonParser(jsonString) ==
    IF trim(jsonString) = "" \/ jsonString \in SyntaxErrors
    THEN [parsedData |-> JNull, isValid |-> FALSE]
    ELSE [parsedData |-> Parse(jsonString), isValid |-> TRUE]

\* The editor's text changes: App renders the button with
\* jsonData={parsedData} and disabled={!isValid}.
SetJsonInput ==
    /\ \E jsonInput \in EditorTexts :
          button' = [button EXCEPT
                        !.jsonData = useJsonParser(jsonInput).parsedData,
                        !.isValid = useJsonParser(jsonInput).isValid]
    /\ UNCHANGED <<json, rootName, interfaces, interfaceStructures, usedNames,
                   structureToNames, output, threw, history, calls, naming>>

\* handleGenerateTypeScript, the button's onClick: a disabled button has
\* no clicks.  A call that throws is caught and leaves the state as it is.
HandleGenerateTypeScript ==
    /\ button.clicks < MaxClicks
    /\ button.isValid
    /\ \/ /\ button.jsonData.falsy
          /\ button' = [button EXCEPT !.clicks = @ + 1]
          /\ UNCHANGED <<json, rootName, interfaces, interfaceStructures, usedNames,
                         structureToNames, output, threw, history, calls, naming>>
       \/ /\ ~button.jsonData.falsy
          /\ GenerateFromJson(button.jsonData, "RootInterface")
          /\ button' = [button EXCEPT
                           !.clicks = @ + 1,
                           !.invoked = @ + 1,
                           !.generatedCode = IF threw' THEN @ ELSE output',
                           !.isModalOpen = IF threw' THEN @ ELSE TRUE]

\* onClose of the modal.
CloseModal ==
    /\ button.isModalOpen
    /\ button' = [button EXCEPT !.isModalOpen = FALSE]
    /\ UNCHANGED <<json, rootName, interfaces, interfaceStructures, usedNames,
                   structureToNames, output, threw, history, calls, naming>>

InitButton ==
    /\ json = JNull
    /\ rootName = DefaultRootName
    /\ Constructed
    /\ naming = NoNaming
    /\ button = NoButton

NextButton == SetJsonInput \/ HandleGenerateTypeScript \/ CloseModal

SpecButton == InitButton /\ [][NextButton]_vars

(***************************************************************************)
(* Properties                                                              *)
(***************************************************************************)
\* What a generator that was never used returns for the arguments of the
\* last call, the engine ordering 'null' and 'undefined' as in that call.
FreshResult ==
    generateFromJson(json, rootName, [NewGenerator EXCEPT !.swap = history.swap])

\* C1: after any sequence of earlier calls on the same generator,
\* generateFromJson(v, n) returns exactly the text that a freshly
\* constructed generator returns for (v, n), and throws when that one does.
C1_SameAsFreshGenerator ==
    calls > 0 => output = FreshResult.output /\ threw = FreshResult.st.threw

\* C1 witness: a call that followed two others has returned definitions.
C1_CalledAfterOthers == calls = MaxCalls /\ ~threw /\ Len(interfaces) >= 2

\* C2: generateFromJson never throws for a valid JSON value.
C2_NeverThrows == ~threw

\* C3: two structurally identical objects at different paths of the input
\* get the same definition name.
C3_IdenticalObjectsShareName ==
    ~threw =>
        \A i, j \in 1..Len(history.objLog) :
            LET p == history.objLog[i]
                q == history.objLog[j]
            IN  (~p.merged /\ ~q.merged /\ p.obj = q.obj) => p.name = q.name

\* C4: the no-match branch of generateObjectType never stores a definition
\* over a different definition that is in the registry.
C4_NeverOverwrites == ~history.overwrote

\* C5: at the end of a run the stored signatures are pairwise distinct.
C5_SignaturesDistinct ==
    (calls > 0 /\ ~threw) =>
        \A i, j \in 1..Len(interfaceStructures) :
            i # j => interfaceStructures[i][2] # interfaceStructures[j][2]

\* C6: at the end of a run the registry holds at most one definition per
\* base name (the name without its trailing digits) and field-name set.
C6_OnePerBaseNameAndFields ==
    (calls > 0 /\ ~threw) =>
        \A i, j \in 1..Len(interfaceStructures) :
            i # j =>
                \/ StripTrailingDigits(interfaceStructures[i][1])
                      # StripTrailingDigits(interfaceStructures[j][1])
                \/ parseStructure(interfaceStructures[i][2])
                      # parseStructure(interfaceStructures[j][2])

\* The members of a union type: its parts between the separators ' | '
\* that stand outside every pair of parentheses.
RECURSIVE MembersFrom(_, _, _, _, _)
MembersFrom(type, i, depth, current, members) ==
    IF i > Len(type) THEN Append(members, current)
    ELSE IF depth = 0 /\ i + 2 <= Len(type) /\ SubSeq(type, i, i + 2) = " | "
    THEN MembersFrom(type, i + 3, 0, "", Append(members, current))
    ELSE LET c == CharAt(type, i)
         IN  MembersFrom(type, i + 1,
                         IF c = "(" THEN depth + 1 ELSE IF c = ")" THEN depth - 1 ELSE depth,
                         current \o c, members)

Members(type) == LET m == MembersFrom(type, 1, 0, "", <<>>) IN {m[i] : i \in 1..Len(m)}

\* The types of a Set of observed types, without the markers of absence.
Observed(typeSet) == LET a == ActualTypes(typeSet) IN {a[i] : i \in 1..Len(a)}

NullAndRealType(types) == "null" \in types /\ types \ {"null", "undefined"} # {}

\* The field key of the definition that the registry holds under name.
FieldOf(name, key) ==
    LET lines == split(MapGet(interfaces, name), "\n")
        required == "  " \o escapePropertyName(key) \o ": "
        optional == "  " \o escapePropertyName(key) \o "?: "
        TypeIn(line, prefix) == SubSeq(line, Len(prefix) + 1, Len(line) - 1)
    IN  IF \E i \in 1..Len(lines) : startsWith(lines[i], optional)
        THEN [found |-> TRUE, optional |-> TRUE,
              type |-> TypeIn(lines[CHOOSE i \in 1..Len(lines) : startsWith(lines[i], optional)],
                              optional)]
        ELSE IF \E i \in 1..Len(lines) : startsWith(lines[i], required)
        THEN [found |-> TRUE, optional |-> FALSE,
              type |-> TypeIn(lines[CHOOSE i \in 1..Len(lines) : startsWith(lines[i], required)],
                              required)]
        ELSE [found |-> FALSE, optional |-> FALSE, type |-> ""]

\* C7: the definition that the differing object elements of an array are
\* given has, for each key, the union of the types observed for the key
\* (an optional field may name undefined too), required when every element
\* has the key and optional when one has not, unless the types hold null
\* and a real type.
C7_MergedDefinitionFields ==
    ~threw =>
        \A n \in 1..Len(history.objLog) :
            LET e == history.objLog[n]
            IN  e.merged =>
                    \A k \in 1..Len(e.propertyTypes) :
                        LET key == e.propertyTypes[k][1]
                            seen == e.propertyTypes[k][2]
                            f == FieldOf(e.name, key)
                        IN  /\ f.found
                            /\ f.optional = (/\ SeqHas(seen, "missing")
                                             /\ ~NullAndRealType(Observed(seen)))
                            /\ Members(f.type) \ (IF f.optional THEN {"undefined"} ELSE {})
                                  = Observed(seen)

\* C8: a field whose observed types hold null and a type other than null
\* and undefined is emitted required, with the union of the observed types
\* as its type, when the shapes of array elements are merged and when a
\* definition of the registry is merged with a similar object.
C8_NullWithRealTypeRequired ==
    ~threw =>
        \A n \in 1..Len(history.objLog) :
            LET e == history.objLog[n]
            IN  \A k \in 1..Len(e.fields) :
                    LET f == e.fields[k]
                        observed ==
                            IF e.how = "similar"
                            THEN UNION {Members(f.seen[i]) : i \in 1..Len(f.seen)}
                            ELSE Observed(f.seen)
                    IN  ((e.how = "similar" \/ e.merged) /\ NullAndRealType(observed))
                           => ~f.optional /\ Members(f.type) = observed

\* C9: an array with at least one object element adds exactly one name of
\* a definition to the types of its other elements.
C9_OneInterfacePerArray ==
    \A n \in 1..Len(history.arrLog) :
        LET e == history.arrLog[n]
        IN  e.objects > 0 =>
                \E i \in 1..Len(interfaces) :
                    e.types = Append(e.primitiveTypes, interfaces[i][1])

\* C9 witness: an array of a null, an array and two objects of different
\* shapes got its element type.
C9_MixedArrayTyped ==
    /\ ~threw
    /\ \E n \in 1..Len(history.arrLog) :
          history.arrLog[n].objects >= 2 /\ Len(history.arrLog[n].primitiveTypes) >= 2
    /\ \E n \in 1..Len(history.objLog) : history.objLog[n].merged

\* The last line of the output binds the root name to a type.
HasRootAlias ==
    LET lines == split(output, "\n")
    IN  startsWith(lines[Len(lines)], "export type " \o rootName \o " = ")

\* C10: the output ends with the root alias exactly when the root is no
\* object, and holds a definition named rootName when the root is one.
C10_AliasIffRootIsNoObject ==
    (calls > 0 /\ ~threw) =>
        /\ HasRootAlias <=> ~IsObject(json)
        /\ IsObject(json) => MapHas(interfaces, rootName)

\* The names after 'export interface' in lines, in their order.
RECURSIVE NamesIn(_)
NamesIn(lines) ==
    IF Len(lines) = 0 THEN <<>>
    ELSE (IF startsWith(lines[1], "export interface ")
          THEN <<SubSeq(lines[1], 18, Len(lines[1]) - 2)>>
          ELSE <<>>) \o NamesIn(Tail(lines))

\* The names of the definitions of the output, in their order.
DefinedNames == NamesIn(split(output, "\n"))

\* The place in the history of the last creation of a definition under
\* name.
LastCreated(name) ==
    CHOOSE n \in 1..Len(history.objLog) :
        /\ history.objLog[n].how = "new" /\ history.objLog[n].name = name
        /\ \A m \in (n + 1)..Len(history.objLog) :
              ~(history.objLog[m].how = "new" /\ history.objLog[m].name = name)

\* C11: the output holds each definition of the registry once, a
\* definition created later before one created earlier, and no line
\* follows the root alias.
C11_ReverseCreationOrder ==
    (calls > 0 /\ ~threw) =>
        /\ Len(DefinedNames) = Len(interfaces)
        /\ \A i \in 1..Len(interfaces) : SeqHas(DefinedNames, interfaces[i][1])
        /\ \A i, j \in 1..Len(DefinedNames) :
              i < j => LastCreated(DefinedNames[i]) > LastCreated(DefinedNames[j])
        /\ \A i \in 1..(Len(split(output, "\n")) - 1) :
              ~startsWith(split(output, "\n")[i], "export type ")

\* The rules of singularization in the specification's words.
SingularByRule(word) ==
    IF endsWith(word, "ies") THEN DropLast(word, 3) \o "y"
    ELSE IF endsWith(word, "ouses") THEN DropLast(word, 1)
    ELSE IF \E ending \in {"ses", "xes", "zes", "ches", "shes"} : endsWith(word, ending)
    THEN DropLast(word, 2)
    ELSE IF endsWith(word, "s") /\ ~endsWith(word, "ss") THEN DropLast(word, 1)
    ELSE word

\* The singularization table of the specification.
SingularExamples ==
    << <<"items", "Item">>, <<"categories", "Category">>, <<"boxes", "Box">>,
       <<"addresses", "Address">>, <<"dishes", "Dish">> >>

\* C12: both cleaners return the name singularized by the rules and then
\* capitalized (the child cleaner when commonMappings has no entry for the
\* name, the other for the name without its affixes, Item standing for an
\* empty result), and the property names of the table give its names.
C12_SingularizedThenCapitalized ==
    /\ (/\ naming.method = "generateCleanChildName"
        /\ ~MapHas(commonMappings, toLowerCase(naming.hint))
        /\ naming.result # Inherited)
          => naming.result = Capitalize(SingularByRule(naming.hint))
    /\ (naming.method = "generateCleanInterfaceName" /\ naming.hint # "")
          => naming.result
               = (IF SingularByRule(StripAffixes(naming.hint)) = "" THEN "Item"
                  ELSE Capitalize(SingularByRule(StripAffixes(naming.hint))))
    /\ (naming.method = "generateCleanChildName" /\ MapHas(SingularExamples, naming.hint))
          => naming.result = MapGet(SingularExamples, naming.hint)

\* The name the specification gives a candidate when allocated holds the
\* names in use: the candidate, or the candidate with the smallest integer
\* from 2 on that makes a name not in use.
UniqueBySpec(allocated, candidate) ==
    IF candidate \notin allocated THEN candidate
    ELSE candidate \o IntToStr(
             CHOOSE k \in 2..(Cardinality(allocated) + 2) :
                 /\ candidate \o IntToStr(k) \notin allocated
                 /\ \A m \in 2..(k - 1) : candidate \o IntToStr(m) \in allocated)

\* The names of the definitions created before the entry n of the history.
CreatedBefore(n) ==
    {history.objLog[m].name : m \in {i \in 1..(n - 1) : history.objLog[i].how = "new"}}

\* C13: ensureUniqueName returns the candidate, or the candidate with the
\* smallest integer from 2 on that is not in use; and a definition created
\* in a run has the name that this gives the name it wanted among the
\* definitions created before it (Item, then Item2).
C13_UniqueNames ==
    /\ naming.method = "ensureUniqueName"
          => naming.result
               = UniqueBySpec({naming.used[i] : i \in 1..Len(naming.used)}, naming.hint)
    /\ ~threw =>
          \A n \in 1..Len(history.objLog) :
              history.objLog[n].how = "new"
                 => history.objLog[n].name
                      = UniqueBySpec(CreatedBefore(n), history.objLog[n].wanted)

\* C14: generateCleanInterfaceName, given no hint or a hint of which
\* nothing remains once its prefix and suffixes are removed, returns Item for the element of an array
\* (the call of generateArrayType, isGeneric false) and Interface in the
\* generic context (the call of generateObjectType, isGeneric true).
C14_FallbackByContext ==
    (/\ naming.method = "generateCleanInterfaceName"
     /\ \/ naming.hint = ""
        \/ StripAffixes(naming.hint) = "")
        => naming.result = (IF naming.isGeneric THEN "Interface" ELSE "Item")

\* The label the specification gives an element that is no object: null,
\* the name of its primitive type, or the type of the array.
RECURSIVE ElementLabels(_, _)
RECURSIVE UnionArrayType(_)
ElementLabels(arr, i) ==
    IF i > Len(arr) THEN <<>>
    ELSE <<IF IsNull(arr[i]) THEN "null"
           ELSE IF IsArray(arr[i]) THEN UnionArrayType(arr[i].vals)
           ELSE typeOf(arr[i])>> \o ElementLabels(arr, i + 1)

\* T[] for one label, (T1 | T2 | ...)[] for several, unknown[] for none.
UnionArrayType(arr) ==
    IF Dedup(ElementLabels(arr, 1)) = <<>> THEN "unknown[]"
    ELSE IF Len(Dedup(ElementLabels(arr, 1))) = 1
    THEN Dedup(ElementLabels(arr, 1))[1] \o "[]"
    ELSE "(" \o join(Dedup(ElementLabels(arr, 1)), " | ") \o ")[]"

\* Whether no object is among the elements of the array or of the arrays
\* in it.
RECURSIVE ObjectFree(_)
ObjectFree(arr) ==
    \A i \in 1..Len(arr) :
        /\ ~IsObject(arr[i])
        /\ IsArray(arr[i]) => ObjectFree(arr[i].vals)

\* C15: an array without object elements is typed by the union of the
\* labels of its elements: T[] for one label, (T1 | T2 | ...)[] for
\* several, unknown[] for an empty array.  The label of a nested array is
\* its own type: the specification's where the nested array holds no
\* object at any depth, the one generateArrayType returned for it
\* otherwise.
C15_UnionOfLabels ==
    \A n \in 1..Len(history.arrLog) :
        history.arrLog[n].objects = 0 =>
            /\ ObjectFree(history.arrLog[n].arr)
                  => history.arrLog[n].result = UnionArrayType(history.arrLog[n].arr)
            /\ Len(history.arrLog[n].arr) = 0 => history.arrLog[n].result = "unknown[]"
            /\ Len(history.arrLog[n].primitiveTypes) = 1
                  => history.arrLog[n].result = history.arrLog[n].primitiveTypes[1] \o "[]"
            /\ Len(history.arrLog[n].primitiveTypes) > 1
                  => history.arrLog[n].result
                       = "(" \o join(history.arrLog[n].primitiveTypes, " | ") \o ")[]"

\* C15 witness: an array of a null, a number and two arrays, one of them
\* empty, got its type.
C15_MixedLabels ==
    /\ ~threw
    /\ \E n \in 1..Len(history.arrLog) :
          /\ history.arrLog[n].objects = 0
          /\ Len(history.arrLog[n].primitiveTypes) >= 4
          /\ SeqHas(history.arrLog[n].primitiveTypes, "unknown[]")
          /\ SeqHas(history.arrLog[n].primitiveTypes, "null")

\* Whether the alternatives hold unknown[] beside another array type.
RedundantUnknown(alternatives) ==
    /\ "unknown[]" \in alternatives
    /\ \E t \in alternatives : t # "unknown[]" /\ endsWith(t, "[]")

\* No array among the elements of which are an empty array and an array
\* typed otherwise has unknown[] in its element type.
C16_ElementTypes ==
    \A n \in 1..Len(history.arrLog) :
        ~RedundantUnknown({history.arrLog[n].types[i]
                             : i \in 1..Len(history.arrLog[n].types)})

\* No field of a definition has unknown[] beside another array type.
C16_FieldTypes ==
    \A n \in 1..Len(history.objLog) :
        \A k \in 1..Len(history.objLog[n].fields) :
            ~RedundantUnknown(Members(history.objLog[n].fields[k].type))

\* C16: unknown[] is in no element type of an array and in no type of a
\* field beside a more specific array type.
C16_NoRedundantUnknown ==
    ~threw => C16_ElementTypes /\ C16_FieldTypes

\* C17: a field of a created definition is optional only if its key was
\* absent from (or undefined in) one of the objects the definition was
\* made from; the field of a key that every one of them holds, be its only
\* value null, is required.
C17_OptionalOnlyIfAbsent ==
    ~threw =>
        \A n \in 1..Len(history.objLog) :
            history.objLog[n].how = "new" =>
                \A k \in 1..Len(history.objLog[n].fields) :
                    history.objLog[n].fields[k].optional
                       => /\ history.objLog[n].merged
                          /\ \/ SeqHas(history.objLog[n].fields[k].seen, "missing")
                             \/ SeqHas(history.objLog[n].fields[k].seen, "undefined")

\* C18: the value passed to generateFromJson is after the call as it was
\* before it.
C18_InputUnchanged == [][json' = json]_vars

\* C18 witness: a call has merged the shapes of the objects of an array
\* and has merged an object into a definition in place.
C18_AfterMerges ==
    /\ calls = 1
    /\ ~threw
    /\ \E n \in 1..Len(history.objLog) : history.objLog[n].merged
    /\ \E n \in 1..Len(history.objLog) : history.objLog[n].how = "similar"

\* A field name as the specification writes it: bare if it is an
\* identifier, between double quotes otherwise.
WrittenName(key) == IF IsIdentifier(key) THEN key ELSE "\"" \o key \o "\""

\* The keys of the objects that a definition of this name was made from.
KeysUnder(name) ==
    UNION {{history.objLog[n].obj.keys[i] : i \in 1..Len(history.objLog[n].obj.keys)}
           : n \in {m \in 1..Len(history.objLog) : history.objLog[m].name = name}}

\* The lines of the fields of a definition; a definition without fields
\* has one empty line.
FieldLines(content) == SubSeq(split(content, "\n"), 2, Len(split(content, "\n")) - 1)

\* C19: each field of each definition the registry holds, created or
\* rewritten by a merge, starts with a key of an object the definition was
\* made from, bare if the key is an identifier and between double quotes
\* otherwise.
C19_FieldNamesAreKeys ==
    ~threw =>
        \A d \in 1..Len(interfaces) :
            \A l \in 1..Len(FieldLines(interfaces[d][2])) :
                FieldLines(interfaces[d][2])[l] = ""
                \/ \E key \in KeysUnder(interfaces[d][1]) :
                    \/ startsWith(FieldLines(interfaces[d][2])[l],
                                  "  " \o WrittenName(key) \o ": ")
                    \/ startsWith(FieldLines(interfaces[d][2])[l],
                                  "  " \o WrittenName(key) \o "?: ")

\* C20: each activation of the button over valid JSON calls
\* generateFromJson once, with the parsed value and the root name
\* RootInterface, stores the text it returns and opens the modal.
C20_EveryActivationGenerates ==
    [][(button.isValid /\ button'.clicks = button.clicks + 1)
          => /\ button'.invoked = button.invoked + 1
             /\ calls' = calls + 1
             /\ json' = button.jsonData
             /\ rootName' = DefaultRootName
             /\ button'.generatedCode = output'
             /\ button'.isModalOpen]_vars

\* Whether the collections hold a definition with this signature.
HasSignature(registry, structure) ==
    \E i \in 1..Len(registry.interfaceStructures) :
        registry.interfaceStructures[i][2] = structure

\* C21: a call of generateObjectType returns by the exact match exactly
\* when a definition has the signature of the shape; it then returns the
\* name of such a definition and leaves the four collections as they were.
C21_ExactMatchChangesNothing ==
    \A n \in 1..Len(history.objLog) :
        /\ HasSignature(history.objLog[n].before, history.objLog[n].structure)
              <=> history.objLog[n].how = "exact"
        /\ history.objLog[n].how = "exact" =>
              /\ history.objLog[n].after = history.objLog[n].before
              /\ MapHas(history.objLog[n].before.interfaceStructures, history.objLog[n].name)
              /\ MapGet(history.objLog[n].before.interfaceStructures, history.objLog[n].name)
                   = history.objLog[n].structure

\* C21 witness: a shape reused the definition of another base name.
C21_ReusedOtherBaseName ==
    /\ ~threw
    /\ \E n \in 1..Len(history.objLog) :
          /\ history.objLog[n].how = "exact"
          /\ StripTrailingDigits(history.objLog[n].wanted)
               # StripTrailingDigits(history.objLog[n].name)

\* The index of the line of the field key in the lines of a definition, 0
\* if it has none.
FieldIndex(lines, key) ==
    IF \E i \in 1..Len(lines) :
          \/ startsWith(lines[i], "  " \o WrittenName(key) \o ": ")
          \/ startsWith(lines[i], "  " \o WrittenName(key) \o "?: ")
    THEN CHOOSE i \in 1..Len(lines) :
             \/ startsWith(lines[i], "  " \o WrittenName(key) \o ": ")
             \/ startsWith(lines[i], "  " \o WrittenName(key) \o "?: ")
    ELSE 0

\* The field key that the lines of a definition hold at index i > 0.
FieldAt(lines, i, key) ==
    IF startsWith(lines[i], "  " \o WrittenName(key) \o "?: ")
    THEN [optional |-> TRUE,
          type |-> SubSeq(lines[i], Len(WrittenName(key)) + 6, Len(lines[i]) - 1)]
    ELSE [optional |-> FALSE,
          type |-> SubSeq(lines[i], Len(WrittenName(key)) + 5, Len(lines[i]) - 1)]

\* The field key of the text of a definition.
FieldIn(content, key) ==
    IF FieldIndex(split(content, "\n"), key) = 0
    THEN [found |-> FALSE, optional |-> FALSE, type |-> ""]
    ELSE [found |-> TRUE,
          optional |-> FieldAt(split(content, "\n"),
                               FieldIndex(split(content, "\n"), key), key).optional,
          type |-> FieldAt(split(content, "\n"),
                           FieldIndex(split(content, "\n"), key), key).type]

\* The types of the occurrence of key at index k of the object of an
\* entry: those the merged shapes gave it, the label of a value that is
\* no object, and the name returned for an object.
OccurrenceTypes(e, k) ==
    IF e.merged /\ MapHas(e.propertyTypes, e.obj.keys[k])
    THEN Observed(MapGet(e.propertyTypes, e.obj.keys[k]))
    ELSE IF IsNull(e.obj.vals[k]) THEN {"null"}
    ELSE IF IsArray(e.obj.vals[k]) /\ ObjectFree(e.obj.vals[k].vals)
    THEN {UnionArrayType(e.obj.vals[k].vals)}
    ELSE IF IsArray(e.obj.vals[k]) \/ IsObject(e.obj.vals[k])
    THEN Members(e.fields[k].seen[Len(e.fields[k].seen)])
    ELSE {typeOf(e.obj.vals[k])}

\* The union of two sets of types, without unknown[] beside another array
\* type.
UnionOfTypes(previous, new) ==
    IF RedundantUnknown(previous \cup new) THEN (previous \cup new) \ {"unknown[]"}
    ELSE previous \cup new

\* Whether the call of an entry made no other call of generateObjectType.
NoNestedCall(e) ==
    e.merged \/ \A k \in 1..Len(e.obj.vals) :
                   /\ ~IsObject(e.obj.vals[k])
                   /\ IsArray(e.obj.vals[k]) => ObjectFree(e.obj.vals[k].vals)

\* The merge of the entry e keeps the names of the definitions and the
\* allocated names, and every other definition.
MergeKeepsOthers(e) ==
    /\ MapKeys(e.after.interfaces) = MapKeys(e.before.interfaces)
    /\ e.after.usedNames = e.before.usedNames
    /\ MapKeys(e.after.interfaceStructures) = MapKeys(e.before.interfaceStructures)
    /\ \A i \in 1..Len(e.before.interfaces) :
          e.before.interfaces[i][1] # e.name
             => e.after.interfaces[i] = e.before.interfaces[i]

\* The merge of the entry e keeps the fields of the definition and their
\* order: they are the keys of the object.
MergeKeepsFields(e) ==
    /\ Len(split(MapGet(e.after.interfaces, e.name), "\n"))
         = Len(split(MapGet(e.before.interfaces, e.name), "\n"))
    /\ Len(FieldLines(MapGet(e.before.interfaces, e.name)))
         = IF Len(e.obj.keys) = 0 THEN 1 ELSE Len(e.obj.keys)
    /\ \A k \in 1..Len(e.obj.keys) :
          /\ FieldIndex(split(MapGet(e.before.interfaces, e.name), "\n"), e.obj.keys[k]) # 0
          /\ FieldIndex(split(MapGet(e.after.interfaces, e.name), "\n"), e.obj.keys[k])
               = FieldIndex(split(MapGet(e.before.interfaces, e.name), "\n"), e.obj.keys[k])

\* The merge of the entry e gives each field the union of its type and
\* the new type, each member once.
MergeUnitesTypes(e) ==
    \A k \in 1..Len(e.obj.keys) :
        /\ Members(FieldIn(MapGet(e.after.interfaces, e.name), e.obj.keys[k]).type)
             = UnionOfTypes(
                   Members(FieldIn(MapGet(e.before.interfaces, e.name), e.obj.keys[k]).type),
                   OccurrenceTypes(e, k))
        /\ Len(MembersFrom(FieldIn(MapGet(e.after.interfaces, e.name), e.obj.keys[k]).type,
                           1, 0, "", <<>>))
             = Cardinality(Members(FieldIn(MapGet(e.after.interfaces, e.name),
                                           e.obj.keys[k]).type))

\* The signature of the fields of a definition: key:type of each field in
\* the default order, joined by semicolons.
SignatureOfFields(content, keys) ==
    join(sort(Listed([k \in 1..Len(keys) |->
                        keys[k] \o ":" \o FieldIn(content, keys[k]).type],
                     Len(keys))),
         ";")

\* C22: a call of generateObjectType that merges into a definition found
\* no definition with the signature of the shape, and one with the base
\* name wanted; it returns its name, keeps the names of the definitions,
\* the allocated names and the other definitions (when it makes no nested
\* call), keeps the fields of the definition, which are those of the
\* shape, and their order, gives each field the union of its type and the
\* new type, and stores the signature of the merged fields.
C22_MergeInPlace ==
    ~threw =>
        \A n \in 1..Len(history.objLog) :
            history.objLog[n].how = "similar" =>
                /\ ~HasSignature(history.objLog[n].before, history.objLog[n].structure)
                /\ MapHas(history.objLog[n].before.interfaces, history.objLog[n].name)
                /\ StripTrailingDigits(history.objLog[n].name)
                     = StripTrailingDigits(history.objLog[n].wanted)
                /\ NoNestedCall(history.objLog[n]) => MergeKeepsOthers(history.objLog[n])
                /\ MergeKeepsFields(history.objLog[n])
                /\ MergeUnitesTypes(history.objLog[n])
                /\ MapGet(history.objLog[n].after.interfaceStructures, history.objLog[n].name)
                     = SignatureOfFields(MapGet(history.objLog[n].after.interfaces,
                                                history.objLog[n].name),
                                         history.objLog[n].obj.keys)

\* Whether the occurrence of key at index k of the object of an entry is
\* optional: the key is absent from one of the merged shapes (or undefined
\* in it), or, as lines 360 and 370 have it, its value is null.
OccurrenceOptional(e, k) ==
    IF e.merged /\ MapHas(e.propertyTypes, e.obj.keys[k])
    THEN \/ SeqHas(MapGet(e.propertyTypes, e.obj.keys[k]), "missing")
         \/ SeqHas(MapGet(e.propertyTypes, e.obj.keys[k]), "undefined")
    ELSE IsNull(e.obj.vals[k])

\* C23: after a merge into a definition, a field whose type has not both
\* null and a real type is optional exactly if it was optional in the
\* definition and is optional in the new occurrence.
C23_OptionalInBoth ==
    ~threw =>
        \A n \in 1..Len(history.objLog) :
            history.objLog[n].how = "similar" =>
                \A k \in 1..Len(history.objLog[n].obj.keys) :
                    \/ ~FieldIn(MapGet(history.objLog[n].after.interfaces,
                                       history.objLog[n].name),
                                history.objLog[n].obj.keys[k]).found
                    \/ NullAndRealType(
                           Members(FieldIn(MapGet(history.objLog[n].after.interfaces,
                                                  history.objLog[n].name),
                                           history.objLog[n].obj.keys[k]).type))
                    \/ FieldIn(MapGet(history.objLog[n].after.interfaces,
                                      history.objLog[n].name),
                               history.objLog[n].obj.keys[k]).optional
                         = (/\ FieldIn(MapGet(history.objLog[n].before.interfaces,
                                              history.objLog[n].name),
                                       history.objLog[n].obj.keys[k]).optional
                            /\ OccurrenceOptional(history.objLog[n], k))

\* Whether the members of a union are different from one another and null
\* and undefined come after all the others.
WellOrdered(members) ==
    /\ \A i, j \in 1..Len(members) : i # j => members[i] # members[j]
    /\ \A i, j \in 1..Len(members) :
          (i < j /\ IsNullish(members[i])) => IsNullish(members[j])

\* The element types of the arrays are well ordered.
C24_ElementUnions ==
    \A n \in 1..Len(history.arrLog) : WellOrdered(history.arrLog[n].types)

\* The types of the fields of the definitions are well ordered.
C24_FieldUnions ==
    \A d \in 1..Len(interfaces) :
        \A key \in KeysUnder(interfaces[d][1]) :
            FieldIn(interfaces[d][2], key).found
               => WellOrdered(MembersFrom(FieldIn(interfaces[d][2], key).type,
                                          1, 0, "", <<>>))

\* C24: every union of the output, the type of a field or the element
\* type of an array, names each member once, null and undefined last.
C24_UnionsWellOrdered ==
    ~threw => C24_ElementUnions /\ C24_FieldUnions

\* The keys of the object of an entry, each with its type: the types the
\* merged shapes gave it, or the simple type of its value.
KeyTypes(e) ==
    {<<e.obj.keys[k],
       IF e.merged /\ MapHas(e.propertyTypes, e.obj.keys[k])
       THEN Observed(MapGet(e.propertyTypes, e.obj.keys[k]))
       ELSE {getSimpleType(e.obj.vals[k])}>> : k \in 1..Len(e.obj.keys)}

\* Two calls of generateObjectType for the same keys with the same types
\* computed the same signature.
C25_SignaturesEqual ==
    \A i, j \in 1..Len(history.objLog) :
        KeyTypes(history.objLog[i]) = KeyTypes(history.objLog[j])
           => history.objLog[i].structure = history.objLog[j].structure

\* Of two calls for the same keys with the same types in another order,
\* the second returned the name the first returned.
C25_SecondReusesFirst ==
    \A i, j \in 1..Len(history.objLog) :
        (/\ i < j
         /\ KeyTypes(history.objLog[i]) = KeyTypes(history.objLog[j])
         /\ \/ history.objLog[i].obj.keys # history.objLog[j].obj.keys
            \/ history.objLog[i].propertyTypes # history.objLog[j].propertyTypes)
           => history.objLog[j].name = history.objLog[i].name

\* C25: objects with the same keys and the same types of the keys have
\* the same signature whatever the order of the keys or of the types
\* observed, and the second of them reuses the definition of the first.
C25_OrderIndependent ==
    ~threw => C25_SignaturesEqual /\ C25_SecondReusesFirst


\* The label of a value that is neither an object nor an array.
LabelOf(value) == IF IsNull(value) THEN "null" ELSE typeOf(value)

\* Whether a value conforms to a type of the output: a member of the type
\* is the label of the value, or the type T[] of an array whose elements
\* all conform to T, or the name of a definition of the output that has a
\* field for each key of the object, of a type the value of the key
\* conforms to.
RECURSIVE Conforms(_, _)
Conforms(value, type) ==
    \E m \in Members(type) :
        IF IsObject(value)
        THEN /\ MapHas(interfaces, m)
             /\ \A k \in 1..Len(value.keys) :
                   /\ FieldIn(MapGet(interfaces, m), value.keys[k]).found
                   /\ Conforms(value.vals[k],
                               FieldIn(MapGet(interfaces, m), value.keys[k]).type)
        ELSE IF IsArray(value)
        THEN /\ endsWith(m, "[]")
             /\ \A i \in 1..Len(value.vals) :
                   Conforms(value.vals[i], StripOuterParens(DropLast(m, 2)))
        ELSE m = LabelOf(value)

\* C26: every object element of an array conforms to the interface that
\* the array's elements were given: each key of the element is a field of
\* the definition, and the value of the key, taken recursively, conforms
\* to the type of the field.
C26_ElementsConform ==
    ~threw =>
        \A n \in 1..Len(history.arrLog) :
            history.arrLog[n].objects > 0 =>
                \A i \in 1..Len(history.arrLog[n].arr) :
                    IsObject(history.arrLog[n].arr[i]) =>
                        Conforms(history.arrLog[n].arr[i],
                                 history.arrLog[n].types[Len(history.arrLog[n].types)])


\* The index of the first occurrence of the text t in s from index i on,
\* 0 if there is none.
RECURSIVE IndexOfText(_, _, _)
IndexOfText(s, t, i) ==
    IF i + Len(t) - 1 > Len(s) THEN 0
    ELSE IF SubSeq(s, i, i + Len(t) - 1) = t THEN i
    ELSE IndexOfText(s, t, i + 1)

\* The type a line of the output gives: that of a field, after the colon
\* that ends its name, that of the root alias, after the equals sign, and
\* the empty text on every other line.
TypeOfLine(line) ==
    IF startsWith(line, "  ") /\ IndexOfText(line, ": ", 1) > 0
    THEN SubSeq(line, IndexOfText(line, ": ", 1) + 2, Len(line) - 1)
    ELSE IF startsWith(line, "export type ") /\ IndexOfText(line, " = ", 1) > 0
    THEN SubSeq(line, IndexOfText(line, " = ", 1) + 3, Len(line) - 1)
    ELSE ""

\* The names in a type: the members of its unions, and those of the
\* element types of its array types.
RECURSIVE TypeAtoms(_)
TypeAtoms(type) ==
    UNION {IF endsWith(m, "[]")
           THEN TypeAtoms(StripOuterParens(DropLast(m, 2)))
           ELSE {m} : m \in Members(type)}

\* The type names that name no definition.
BuiltInTypes == {"number", "string", "boolean", "null", "undefined", "unknown", "object"}

\* The interface names the output refers to in a field type, in an array
\* element type or in the root alias.
ReferencedNames ==
    UNION {TypeAtoms(TypeOfLine(split(output, "\n")[l])) \ (BuiltInTypes \cup {""})
           : l \in 1..Len(split(output, "\n"))}

\* C27: every name the output refers to in a field type, in an array
\* element type or in the root alias, be it an identifier there or a name
\* that generateObjectType returned for an object, is the name of a
\* definition of the output.
C27_ReferencesDefined ==
    (calls > 0 /\ ~threw) =>
        /\ \A name \in ReferencedNames : IsIdentifier(name) => SeqHas(DefinedNames, name)
        /\ \A n \in 1..Len(history.objLog) : SeqHas(DefinedNames, history.objLog[n].name)

\* C27 witness: the output refers to a definition that was reused for an
\* equal signature, to one that was merged in place and to one that was
\* inserted, and each of them is defined.
C27_AfterReuseMergeInsert ==
    /\ calls > 0 /\ ~threw
    /\ \E i, j, k \in 1..Len(history.objLog) :
          /\ history.objLog[i].how = "exact"
          /\ history.objLog[j].how = "similar"
          /\ history.objLog[k].how = "new"
          /\ {history.objLog[i].name, history.objLog[j].name, history.objLog[k].name}
                \subseteq ReferencedNames


\* C28: when mergeInterfaces merges an object into a definition, a field
\* whose new type is equal to the type the definition holds for it keeps
\* that type, in the properties merged and in the definition rebuilt.
C28_SameTypeKept ==
    ~threw =>
        \A n \in 1..Len(history.objLog) :
            history.objLog[n].how = "similar" =>
                \A k \in 1..Len(history.objLog[n].fields) :
                    (/\ Len(history.objLog[n].fields[k].seen) = 2
                     /\ history.objLog[n].fields[k].seen[1]
                          = history.objLog[n].fields[k].seen[2])
                    => /\ history.objLog[n].fields[k].type
                            = history.objLog[n].fields[k].seen[1]
                       /\ NoNestedCall(history.objLog[n])
                            => FieldIn(MapGet(history.objLog[n].after.interfaces,
                                              history.objLog[n].name),
                                       history.objLog[n].fields[k].key).type
                                 = history.objLog[n].fields[k].seen[1]


\* C29: every name after 'export interface' in the output is an
\* identifier: a letter, _ or $, followed by letters, digits, _ and $.
C29_NamesAreIdentifiers ==
    (calls > 0 /\ ~threw) =>
        \A i \in 1..Len(DefinedNames) : IsIdentifier(DefinedNames[i])


\* C30: generateCleanInterfaceName, as generateArrayType calls it for the
\* objects of an array, returns a name that generateCleanChildName made
\* of a property name unchanged.
C30_CleaningIdempotent ==
    (naming.method = "generateCleanChildName" /\ naming.result # Inherited)
        => generateCleanInterfaceName(naming.result, FALSE) = naming.result

====
